---- MODULE Spec2Model ----
(***************************************************************************)
(* A state-machine model of the bond trading system (MTH9815 final         *)
(* project): the typed publish/subscribe services, the algo execution and  *)
(* streaming engines, trade booking, position and risk aggregation and     *)
(* the inquiry state machine.                                              *)
(*                                                                         *)
(* The program is single threaded and every call is synchronous, so one    *)
(* top-level call (an ingestion or a direct call of a service method)      *)
(* together with the whole listener fan-out it triggers is one action.     *)
(* The handlers are operators from a world record (all fields of all       *)
(* service objects) to a world record; an action applies one handler to    *)
(* the current state.  An exception nobody catches (the sources hold no    *)
(* try/catch) ends the program: the field exc records it and every action  *)
(* is disabled afterwards.                                                 *)
(*                                                                         *)
(* Prices are counted in 1/256 (the grid of the fractional notation),      *)
(* PV01 values in 1/1000.  Quantities are far from the range of long, so   *)
(* integer arithmetic is unbounded here.                                   *)
(***************************************************************************)
EXTENDS Integers, Sequences, FiniteSets, TLC

VARIABLES
    internalPriceMap, priceSrvListeners,               \* PricingService
    GUIs, timeCount,                                   \* GUIService
    algoStreams, algoStreamingListeners, pricePublishCount, \* AlgoStreamingService
    priceStreams, streamingListeners,                  \* StreamingService
    orderBooks, marketDataListeners, aggregatedBook,   \* MarketDataService (+ the static of AggregateDepth)
    bookDepth,                                         \* MarketDataService
    feed,         \* MarketDataConnector::Subscribe: where it is, and its locals
    algoExecutions, algoExecutionListeners, executionCount, \* AlgoExecutionService
    executionOrders, executionListeners,               \* ExecutionService
    trades, tradeBookingListeners, bookedCount,        \* TradeBookingService (+ its listener)
    positions, positionListeners,                      \* PositionService
    pv01s, riskListeners,                              \* RiskService
    inquiries, inquiryListeners,                       \* InquiryService
    exc,          \* "none", or the exception / fault that ended the program
    trace,        \* what the last top-level call did: listener calls, returns, sink writes
    lastOp,       \* the last top-level call and its argument
    opCount,      \* number of top-level calls made so far
    env,          \* what the environment decided during the last top-level call
    emitted,      \* history: the ExecutionOrders synthesized by AlgoExecutionTrade, in order
    feedLog,      \* history: the lines Subscribe accepted and the snapshots it handed over
    applied       \* history: <<product, book>> -> sum of the signed quantities of the trades applied

vars == <<internalPriceMap, priceSrvListeners, GUIs, timeCount, algoStreams,
          algoStreamingListeners, pricePublishCount, priceStreams, streamingListeners,
          orderBooks, marketDataListeners, aggregatedBook, bookDepth, feed, feedLog,
          algoExecutions, algoExecutionListeners,
          executionCount, executionOrders, executionListeners, trades,
          tradeBookingListeners, bookedCount, positions, positionListeners, pv01s,
          riskListeners, inquiries, inquiryListeners, exc, trace, lastOp, opCount, env,
          emitted, applied>>

(***************************************************************************)
(* Bounds of the model                                                     *)
(***************************************************************************)
MaxListeners == 2     \* registrations per service
MaxOps == 3           \* top-level calls per run
MaxDepth == 2         \* orders per side of an order book
MaxLines == 5         \* lines of the market data file

(***************************************************************************)
(* Keyed maps (std::map): a function whose domain is the set of present    *)
(* keys.  operator[] on an absent key inserts a default value.             *)
(***************************************************************************)
EmptyMap == [k \in {} |-> 0]

Lookup(m, k, d) == IF k \in DOMAIN m THEN m[k] ELSE d

Put(m, k, v) == [x \in (DOMAIN m) \cup {k} |-> IF x = k THEN v ELSE m[x]]

RECURSIVE SumOver(_, _)
SumOver(m, keys) ==
    IF keys = {} THEN 0
    ELSE LET k == CHOOSE x \in keys : TRUE
         IN  m[k] + SumOver(m, keys \ {k})

(***************************************************************************)
(* Products.  bondPV01 is the static PV01 table (values in 1/1000); the    *)
(* last product id of ProductIds is not one of its keys.                   *)
(***************************************************************************)
bondPV01 ==
    [id \in {"912828V23", "912828W22", "912828X21", "912828Y20", "912828Z19",
             "912810FZ8", "912810GZ6"} |->
        CASE id = "912828V23" -> 19
          [] id = "912828W22" -> 28
          [] id = "912828X21" -> 46
          [] id = "912828Y20" -> 64
          [] id = "912828Z19" -> 91
          [] id = "912810FZ8" -> 142
          [] id = "912810GZ6" -> 183]

ProductIds == {"912828V23", "912828W22", "99999ZZ99"}

(***************************************************************************)
(* The world: every field of every service object, as one record.          *)
(***************************************************************************)
World ==
    [internalPriceMap |-> internalPriceMap, priceSrvListeners |-> priceSrvListeners,
     GUIs |-> GUIs, timeCount |-> timeCount,
     algoStreams |-> algoStreams, algoStreamingListeners |-> algoStreamingListeners,
     pricePublishCount |-> pricePublishCount,
     priceStreams |-> priceStreams, streamingListeners |-> streamingListeners,
     orderBooks |-> orderBooks, marketDataListeners |-> marketDataListeners,
     aggregatedBook |-> aggregatedBook,
     bookDepth |-> bookDepth, feed |-> feed, feedLog |-> feedLog,
     algoExecutions |-> algoExecutions, algoExecutionListeners |-> algoExecutionListeners,
     executionCount |-> executionCount,
     executionOrders |-> executionOrders, executionListeners |-> executionListeners,
     trades |-> trades, tradeBookingListeners |-> tradeBookingListeners,
     bookedCount |-> bookedCount,
     positions |-> positions, positionListeners |-> positionListeners,
     pv01s |-> pv01s, riskListeners |-> riskListeners,
     inquiries |-> inquiries, inquiryListeners |-> inquiryListeners,
     exc |-> exc, trace |-> trace, lastOp |-> lastOp, opCount |-> opCount,
     env |-> env,
     emitted |-> emitted, applied |-> applied]

(***************************************************************************)
(* The environment of one top-level call: the clock reading of the GUI     *)
(* throttle (milliseconds within the second) and what a read past the end  *)
(* of an empty vector yields (undefined behaviour: a fault, or whatever    *)
(* the memory holds, for the bid stack and for the offer stack), and the   *)
(* order in which an unordered_map is iterated.                            *)
(***************************************************************************)
Fault == [fault |-> TRUE]

Stray(order) == [fault |-> FALSE, order |-> order]

NoEnv ==
    [now |-> 0, strayBid |-> Fault, strayOffer |-> Fault, levelOrder |-> "ascending",
     dangling |-> Fault, strayChar |-> Fault]

\* The state after the constructors of all services have run.
Constructed ==
    [internalPriceMap |-> EmptyMap, priceSrvListeners |-> <<>>,
     GUIs |-> EmptyMap, timeCount |-> 0,
     algoStreams |-> EmptyMap, algoStreamingListeners |-> <<>>,
     pricePublishCount |-> 0,
     priceStreams |-> EmptyMap, streamingListeners |-> <<>>,
     orderBooks |-> EmptyMap, marketDataListeners |-> <<>>,
     aggregatedBook |-> [constructed |-> FALSE],
     bookDepth |-> 10, feed |-> [pc |-> "idle"],
     feedLog |-> [lines |-> 0, accepted |-> <<>>, snapshots |-> <<>>],
     algoExecutions |-> EmptyMap, algoExecutionListeners |-> <<>>,
     executionCount |-> 0,
     executionOrders |-> EmptyMap, executionListeners |-> <<>>,
     trades |-> EmptyMap, tradeBookingListeners |-> <<>>,
     bookedCount |-> 0,
     positions |-> EmptyMap, positionListeners |-> <<>>,
     pv01s |-> EmptyMap, riskListeners |-> <<>>,
     inquiries |-> EmptyMap, inquiryListeners |-> <<>>,
     exc |-> "none", trace |-> <<>>, lastOp |-> [name |-> "none"], opCount |-> 0,
     env |-> NoEnv,
     emitted |-> <<>>, applied |-> EmptyMap]

\* The next state is the world w.
Apply(w) ==
    /\ internalPriceMap' = w.internalPriceMap
    /\ priceSrvListeners' = w.priceSrvListeners
    /\ GUIs' = w.GUIs
    /\ timeCount' = w.timeCount
    /\ algoStreams' = w.algoStreams
    /\ algoStreamingListeners' = w.algoStreamingListeners
    /\ pricePublishCount' = w.pricePublishCount
    /\ priceStreams' = w.priceStreams
    /\ streamingListeners' = w.streamingListeners
    /\ orderBooks' = w.orderBooks
    /\ marketDataListeners' = w.marketDataListeners
    /\ aggregatedBook' = w.aggregatedBook
    /\ bookDepth' = w.bookDepth
    /\ feed' = w.feed
    /\ feedLog' = w.feedLog
    /\ algoExecutions' = w.algoExecutions
    /\ algoExecutionListeners' = w.algoExecutionListeners
    /\ executionCount' = w.executionCount
    /\ executionOrders' = w.executionOrders
    /\ executionListeners' = w.executionListeners
    /\ trades' = w.trades
    /\ tradeBookingListeners' = w.tradeBookingListeners
    /\ bookedCount' = w.bookedCount
    /\ positions' = w.positions
    /\ positionListeners' = w.positionListeners
    /\ pv01s' = w.pv01s
    /\ riskListeners' = w.riskListeners
    /\ inquiries' = w.inquiries
    /\ inquiryListeners' = w.inquiryListeners
    /\ exc' = w.exc
    /\ trace' = w.trace
    /\ lastOp' = w.lastOp
    /\ opCount' = w.opCount
    /\ env' = w.env
    /\ emitted' = w.emitted
    /\ applied' = w.applied

\* The world at the start of a top-level call: the trace starts anew.
Enter(name, arg, e) ==
    [World EXCEPT !.trace = <<>>, !.lastOp = [name |-> name, arg |-> arg],
                  !.opCount = @ + 1, !.env = e]

(***************************************************************************)
(* The trace of one top-level call.                                        *)
(***************************************************************************)
\* the value a top-level query returns to its caller
WithResult(w, r) ==
    [w EXCEPT !.lastOp = [name |-> @.name, arg |-> @.arg, result |-> r]]

\* listener number i (the listener lst) of service svc is handed data
LogCall(w, svc, i, lst, data) ==
    [w EXCEPT !.trace = Append(@, [ev |-> "call", svc |-> svc, idx |-> i,
                                   lst |-> lst, data |-> data])]

\* its ProcessAdd has returned
LogRet(w, svc, i) ==
    [w EXCEPT !.trace = Append(@, [ev |-> "ret", svc |-> svc, idx |-> i])]

\* the return of a listener's ProcessAdd, unless it threw
Returned(w, svc, i) == IF w.exc = "none" THEN LogRet(w, svc, i) ELSE w

(***************************************************************************)
(* HistoricalDataService: the listener hands the record to the connector,  *)
(* which appends one line to the file of the service type.                 *)
(***************************************************************************)
HistoricalDataConnector_Publish(w, serviceType, dataObj) ==
    [w EXCEPT !.trace = Append(@, [ev |-> "persist", type |-> serviceType,
                                   data |-> dataObj])]

HistoricalDataListener_ProcessAdd(w, serviceType, dataObj) ==
    HistoricalDataConnector_Publish(w, serviceType, dataObj)

(***************************************************************************)
(* RiskService                                                             *)
(***************************************************************************)
RiskListenerKinds == {"HistoricalRisk"}

\* ProcessAdd of a ServiceListener<PV01<T>>
PV01Listener_ProcessAdd(w, lst, data) ==
    HistoricalDataListener_ProcessAdd(w, "Risk", data)

RECURSIVE RiskService_Notify(_, _, _)
RiskService_Notify(w, i, data) ==
    IF w.exc # "none" \/ i > Len(w.riskListeners) THEN w
    ELSE RiskService_Notify(
            Returned(PV01Listener_ProcessAdd(LogCall(w, "Risk", i, w.riskListeners[i], data),
                                         w.riskListeners[i], data), "Risk", i),
            i + 1, data)

\* a mutant of Position_GetAggregatePosition: the first book only
Position_GetAggregatePositionOneBook(position) ==
    Lookup(position.bookPositions, "TRSY1", 0)

Position_GetAggregatePosition(position) ==
    SumOver(position.bookPositions, DOMAIN position.bookPositions)

\* a mutant of RiskService_AddPosition: a product outside the table is risked
\* at a per-unit value of 0
RiskService_AddPositionDefaulting(w, position) ==
    RiskService_Notify(
        [w EXCEPT !.pv01s = Put(@, position.product,
                                [product |-> position.product,
                                 pv01 |-> Lookup(bondPV01, position.product, 0),
                                 quantity |-> Position_GetAggregatePosition(position)])],
        1, [product |-> position.product,
            pv01 |-> Lookup(bondPV01, position.product, 0),
            quantity |-> Position_GetAggregatePosition(position)])

\* bondPV01.at(_id) throws std::out_of_range for an id that is not a key
RiskService_AddPosition(w, position) ==
    LET id == position.product
    IN  IF id \notin DOMAIN bondPV01 THEN [w EXCEPT !.exc = "std::out_of_range"]
        ELSE LET pv == [product |-> id, pv01 |-> bondPV01[id],
                        quantity |-> Position_GetAggregatePosition(position)]
                 w1 == [w EXCEPT !.pv01s = Put(@, id, pv)]
             IN  RiskService_Notify(w1, 1, pv)

RiskServiceListener_ProcessAdd(w, data) == RiskService_AddPosition(w, data)

\* the value operator[] inserts: PV01(), value-initialised
DefaultPV01 == [product |-> "", pv01 |-> 0, quantity |-> 0]

\* the loop of GetBucketedRisk over the products of the sector, from number i:
\* _pv01 += pv01s[_pId].GetPV01() * pv01s[_pId].GetQuantity()
RECURSIVE BucketedValue(_, _, _)
BucketedValue(stored, products, i) ==
    IF i > Len(products) THEN 0
    ELSE Lookup(stored, products[i], DefaultPV01).pv01
             * Lookup(stored, products[i], DefaultPV01).quantity
         + BucketedValue(stored, products, i + 1)

\* pv01s[_pId] inserts a default PV01 for each product of the sector not stored
Vivified(stored, products) ==
    [id \in DOMAIN stored \cup {products[i] : i \in DOMAIN products} |->
        Lookup(stored, id, DefaultPV01)]

\* what the caller reads through the returned reference: the function returns
\* a reference to a temporary, which is destroyed on return
ThroughDangling(made, dangling) ==
    IF dangling.fault THEN Fault
    ELSE IF dangling.intact THEN [fault |-> FALSE, pv01 |-> made.pv01,
                                  quantity |-> made.quantity]
    ELSE [fault |-> FALSE, pv01 |-> dangling.value.pv01,
          quantity |-> dangling.value.quantity]

RiskService_GetBucketedRisk(w, sector) ==
    WithResult(
        [w EXCEPT !.pv01s = Vivified(@, sector.products),
                  !.exc = IF w.env.dangling.fault THEN "fault" ELSE @],
        ThroughDangling([pv01 |-> BucketedValue(w.pv01s, sector.products, 1),
                         quantity |-> 1],
                        w.env.dangling))

(***************************************************************************)
(* PositionService                                                         *)
(***************************************************************************)
PositionListenerKinds == {"RiskServiceListener", "HistoricalPosition"}

\* ProcessAdd of a ServiceListener<Position<T>>
PositionListener_ProcessAdd(w, lst, data) ==
    IF lst = "RiskServiceListener" THEN RiskServiceListener_ProcessAdd(w, data)
    ELSE HistoricalDataListener_ProcessAdd(w, "Position", data)

RECURSIVE PositionService_Notify(_, _, _)
PositionService_Notify(w, i, data) ==
    IF w.exc # "none" \/ i > Len(w.positionListeners) THEN w
    ELSE PositionService_Notify(
            Returned(PositionListener_ProcessAdd(LogCall(w, "Position", i, w.positionListeners[i], data),
                                         w.positionListeners[i], data), "Position", i),
            i + 1, data)

\* Position(prod): no book yet
NewPosition(prod) == [product |-> prod, bookPositions |-> EmptyMap]

\* the value operator[] inserts: Position() with a default product
DefaultPosition == [product |-> "", bookPositions |-> EmptyMap]

\* bookPositions[book] += qty
Position_AddPosition(position, book, qty) ==
    [position EXCEPT !.bookPositions = Put(@, book, Lookup(@, book, 0) + qty)]

SignedQuantityNoSign(tradeObj) == tradeObj.quantity

\* + quantity for BUY, - quantity otherwise
SignedQuantity(tradeObj) ==
    IF tradeObj.side = "BUY" THEN tradeObj.quantity ELSE 0 - tradeObj.quantity

\* a mutant of MergeBooks: the books of the old position are left out
MergeBooksNone(newPosition, oldMap, keys) == newPosition

\* for (auto& kv : oldMap) newPosition.AddPosition(kv.first, kv.second)
RECURSIVE MergeBooks(_, _, _)
MergeBooks(newPosition, oldMap, keys) ==
    IF keys = {} THEN newPosition
    ELSE LET k == CHOOSE x \in keys : TRUE
         IN  MergeBooks(Position_AddPosition(newPosition, k, oldMap[k]), oldMap,
                        keys \ {k})

\* a mutant of PositionService_AddTrade: the listeners are handed the position
\* of the trade alone, not the merged one
PositionService_AddTradeNotifyFresh(w, tradeObj) ==
    PositionService_Notify(
        [w EXCEPT !.positions =
            Put(@, tradeObj.product,
                MergeBooks(Position_AddPosition(NewPosition(tradeObj.product),
                                                tradeObj.book, SignedQuantity(tradeObj)),
                           Lookup(@, tradeObj.product, DefaultPosition).bookPositions,
                           DOMAIN Lookup(@, tradeObj.product, DefaultPosition).bookPositions))],
        1, Position_AddPosition(NewPosition(tradeObj.product), tradeObj.book,
                                SignedQuantity(tradeObj)))

PositionService_AddTrade(w, tradeObj) ==
    LET prodId == tradeObj.product
        fresh == Position_AddPosition(NewPosition(prodId), tradeObj.book,
                                      SignedQuantity(tradeObj))
        oldPosition == Lookup(w.positions, prodId, DefaultPosition)
        oldMap == oldPosition.bookPositions
        newPosition == MergeBooks(fresh, oldMap, DOMAIN oldMap)
        key == <<prodId, tradeObj.book>>
        w1 == [w EXCEPT !.positions = Put(@, prodId, newPosition),
                        !.applied = Put(@, key, Lookup(@, key, 0)
                              + (IF tradeObj.side = "BUY" THEN tradeObj.quantity
                                 ELSE 0 - tradeObj.quantity))]
    IN  PositionService_Notify(w1, 1, newPosition)

PositionServiceListener_ProcessAdd(w, data) == PositionService_AddTrade(w, data)


(***************************************************************************)
(* TradeBookingService and its listener on the execution service           *)
(***************************************************************************)
marketBooks == <<"TRSY1", "TRSY2", "TRSY3">>

TradeListenerKinds == {"PositionServiceListener"}

\* ProcessAdd of a ServiceListener<Trade<T>>
TradeListener_ProcessAdd(w, lst, data) == PositionServiceListener_ProcessAdd(w, data)

RECURSIVE TradeBookingService_Notify(_, _, _)
TradeBookingService_Notify(w, i, data) ==
    IF w.exc # "none" \/ i > Len(w.tradeBookingListeners) THEN w
    ELSE TradeBookingService_Notify(
            Returned(TradeListener_ProcessAdd(LogCall(w, "TradeBooking", i, w.tradeBookingListeners[i], data),
                                         w.tradeBookingListeners[i], data), "TradeBooking", i),
            i + 1, data)

TradeBookingService_OnMessage(w, data) ==
    TradeBookingService_Notify([w EXCEPT !.trades = Put(@, data.tradeId, data)], 1, data)

TradeBookingService_BookTrade(w, tradeObj) == TradeBookingService_Notify(w, 1, tradeObj)

\* a mutant of TradeBookingServiceListener_ProcessAdd: the books are taken
\* from the first one on
TradeBookingServiceListener_ProcessAddFirstBookFirst(w, execOrder) ==
    TradeBookingService_BookTrade(
        TradeBookingService_OnMessage(
            [w EXCEPT !.bookedCount = @ + 1],
            [product |-> execOrder.product, tradeId |-> execOrder.orderId,
             price |-> execOrder.price, book |-> marketBooks[(w.bookedCount % 3) + 1],
             quantity |-> execOrder.visibleQuantity + execOrder.hiddenQuantity,
             side |-> IF execOrder.side = "BID" THEN "SELL" ELSE "BUY"]),
        [product |-> execOrder.product, tradeId |-> execOrder.orderId,
         price |-> execOrder.price, book |-> marketBooks[(w.bookedCount % 3) + 1],
         quantity |-> execOrder.visibleQuantity + execOrder.hiddenQuantity,
         side |-> IF execOrder.side = "BID" THEN "SELL" ELSE "BUY"])

TradeBookingServiceListener_ProcessAdd(w, execOrder) ==
    LET count == w.bookedCount + 1
        generatedTrade ==
            [product |-> execOrder.product, tradeId |-> execOrder.orderId,
             price |-> execOrder.price, book |-> marketBooks[(count % 3) + 1],
             quantity |-> execOrder.visibleQuantity + execOrder.hiddenQuantity,
             side |-> IF execOrder.side = "BID" THEN "SELL" ELSE "BUY"]
    IN  TradeBookingService_BookTrade(
            TradeBookingService_OnMessage([w EXCEPT !.bookedCount = count],
                                          generatedTrade),
            generatedTrade)

(***************************************************************************)
(* ExecutionService                                                        *)
(***************************************************************************)
ExecutionListenerKinds == {"HistoricalExecution", "TradeBookingServiceListener"}

\* ProcessAdd of a ServiceListener<ExecutionOrder<T>>
ExecutionOrderListener_ProcessAdd(w, lst, data) ==
    IF lst = "TradeBookingServiceListener" THEN TradeBookingServiceListener_ProcessAdd(w, data)
    ELSE HistoricalDataListener_ProcessAdd(w, "Execution", data)

RECURSIVE ExecutionService_Notify(_, _, _)
ExecutionService_Notify(w, i, data) ==
    IF w.exc # "none" \/ i > Len(w.executionListeners) THEN w
    ELSE ExecutionService_Notify(
            Returned(ExecutionOrderListener_ProcessAdd(LogCall(w, "Execution", i, w.executionListeners[i], data),
                                         w.executionListeners[i], data), "Execution", i),
            i + 1, data)

ExecutionService_OnMessage(w, dataObj) ==
    [w EXCEPT !.executionOrders = Put(@, dataObj.product, dataObj)]

ExecutionService_ExecuteOrder(w, execOrder) ==
    ExecutionService_Notify([w EXCEPT !.executionOrders = Put(@, execOrder.product, execOrder)],
                            1, execOrder)

ExecutionServiceListener_StoreOnly(w, algoExecObj) ==
    ExecutionService_OnMessage(w, algoExecObj.executionOrder)

ExecutionServiceListener_ProcessAdd(w, algoExecObj) ==
    ExecutionService_ExecuteOrder(
        ExecutionService_OnMessage(w, algoExecObj.executionOrder),
        algoExecObj.executionOrder)

(***************************************************************************)
(* Order books                                                             *)
(***************************************************************************)
RECURSIVE HighestFromLastWins(_, _, _)
HighestFromLastWins(stack, i, best) ==
    IF i > Len(stack) THEN best
    ELSE HighestFromLastWins(stack, i + 1,
                             IF stack[i].price >= best.price THEN stack[i] ELSE best)

\* a mutant of HighestFrom: the first bid of the stack, whatever its price
HighestFromFirst(stack, i, best) == best

\* the first order of stack with the highest price, in the order of the loop
RECURSIVE HighestFrom(_, _, _)
HighestFrom(stack, i, best) ==
    IF i > Len(stack) THEN best
    ELSE HighestFrom(stack, i + 1, IF stack[i].price > best.price THEN stack[i] ELSE best)

\* the first order of stack with the lowest price
RECURSIVE LowestFrom(_, _, _)
LowestFrom(stack, i, best) ==
    IF i > Len(stack) THEN best
    ELSE LowestFrom(stack, i + 1, IF stack[i].price < best.price THEN stack[i] ELSE best)

\* OrderBook::GetBidOffer.  bidStack[0] / offerStack[0] of an empty stack is a
\* read past the end: it faults or yields what the memory holds (e).
OrderBook_GetBidOffer(book, e) ==
    LET bid == IF book.bidStack = <<>> THEN e.strayBid
               ELSE Stray(HighestFrom(book.bidStack, 2, book.bidStack[1]))
        offer == IF book.offerStack = <<>> THEN e.strayOffer
                 ELSE Stray(LowestFrom(book.offerStack, 2, book.offerStack[1]))
    IN  IF bid.fault \/ offer.fault THEN Fault
        ELSE [fault |-> FALSE, bidOrder |-> bid.order, offerOrder |-> offer.order]

(***************************************************************************)
(* AlgoExecutionService                                                    *)
(***************************************************************************)
AlgoExecutionListenerKinds == {"ExecutionServiceListener"}

\* ProcessAdd of a ServiceListener<AlgoExecution<T>>
AlgoExecutionListener_ProcessAdd(w, lst, data) == ExecutionServiceListener_ProcessAdd(w, data)

RECURSIVE AlgoExecutionService_Notify(_, _, _)
AlgoExecutionService_Notify(w, i, data) ==
    IF w.exc # "none" \/ i > Len(w.algoExecutionListeners) THEN w
    ELSE AlgoExecutionService_Notify(
            Returned(AlgoExecutionListener_ProcessAdd(LogCall(w, "AlgoExecution", i, w.algoExecutionListeners[i], data),
                                         w.algoExecutionListeners[i], data), "AlgoExecution", i),
            i + 1, data)

\* 1/128 in units of 1/256
SpreadThreshold == 2

SpreadFilterStrict(bidPrice, offerPrice) == offerPrice - bidPrice < SpreadThreshold

\* (offerPrice - bidPrice) <= 1.0 / 128.0
SpreadFilter(bidPrice, offerPrice) == offerPrice - bidPrice <= SpreadThreshold

ChooseBidAlways(count) == TRUE

ChooseBidFlipped(count) == count % 2 = 0

\* executionCount % 2 == 1: use the bid side
ChooseBid(count) == count % 2 = 1

OrderIdStale(count) == <<"AlgoExec", count - 1>>

\* "AlgoExec" + std::to_string(executionCount)
OrderId(count) == <<"AlgoExec", count>>

AlgoExecutionService_AlgoExecutionTrade(w, orderBookObj) ==
    LET prodId == orderBookObj.product
        bo == OrderBook_GetBidOffer(orderBookObj, w.env)
    IN  IF bo.fault THEN [w EXCEPT !.exc = "fault"]
        ELSE IF ~SpreadFilter(bo.bidOrder.price, bo.offerOrder.price) THEN w
        ELSE LET chosen == IF ChooseBid(w.executionCount) THEN bo.bidOrder
                           ELSE bo.offerOrder
                 chosenSide == IF ChooseBid(w.executionCount) THEN "BID" ELSE "OFFER"
                 count == w.executionCount + 1
                 order == [product |-> prodId, side |-> chosenSide,
                           orderId |-> OrderId(count), orderType |-> "MARKET",
                           price |-> chosen.price, visibleQuantity |-> chosen.quantity,
                           hiddenQuantity |-> 0, parentOrderId |-> "PARENT_ORDER_ID",
                           isChildOrder |-> FALSE]
                 algoExec == [executionOrder |-> order]
                 w1 == [w EXCEPT !.executionCount = count,
                                 !.algoExecutions = Put(@, prodId, algoExec),
                                 !.emitted = Append(@, [order |-> order, at |-> w.opCount])]
             IN  AlgoExecutionService_Notify(w1, 1, algoExec)

AlgoExecutionServiceListener_ProcessAdd(w, bookData) ==
    AlgoExecutionService_AlgoExecutionTrade(w, bookData)

(***************************************************************************)
(* MarketDataService                                                       *)
(***************************************************************************)
MarketDataListenerKinds == {"AlgoExecutionServiceListener"}

\* ProcessAdd of a ServiceListener<OrderBook<T>>
OrderBookListener_ProcessAdd(w, lst, data) == AlgoExecutionServiceListener_ProcessAdd(w, data)

RECURSIVE MarketDataService_Notify(_, _, _)
MarketDataService_Notify(w, i, data) ==
    IF w.exc # "none" \/ i > Len(w.marketDataListeners) THEN w
    ELSE MarketDataService_Notify(
            Returned(OrderBookListener_ProcessAdd(LogCall(w, "MarketData", i, w.marketDataListeners[i], data),
                                         w.marketDataListeners[i], data), "MarketData", i),
            i + 1, data)

MarketDataService_OnMessage(w, data) ==
    MarketDataService_Notify([w EXCEPT !.orderBooks = Put(@, data.product, data)], 1, data)

\* the value operator[] inserts for an absent product id: an OrderBook with a
\* default product and two empty stacks
DefaultOrderBook == [product |-> "", bidStack |-> <<>>, offerStack |-> <<>>]

MarketDataService_GetBestBidOffer(w, productId) ==
    LET book == Lookup(w.orderBooks, productId, DefaultOrderBook)
        bo == OrderBook_GetBidOffer(book, w.env)
    IN  WithResult([w EXCEPT !.orderBooks = Put(@, productId, book),
                             !.exc = IF bo.fault THEN "fault" ELSE @],
                   bo)

AccumulateOverwrite(sum, q) == q

AccumulateCount(sum, q) == sum + 1

\* aggregated[p] += q
Accumulate(sum, q) == sum + q

\* for (auto& one : original) aggregated[one.GetPrice()] += one.GetQuantity()
RECURSIVE AggregateOrders(_, _, _)
AggregateOrders(stack, i, m) ==
    IF i > Len(stack) THEN m
    ELSE AggregateOrders(stack, i + 1,
                         Put(m, stack[i].price,
                             Accumulate(Lookup(m, stack[i].price, 0), stack[i].quantity)))

\* for (auto& kv : aggregated) newStack.push_back(Order(kv.first, kv.second, side)),
\* in the order the unordered_map is iterated
RECURSIVE LevelsOf(_, _, _, _)
LevelsOf(m, keys, side, levelOrder) ==
    IF keys = {} THEN <<>>
    ELSE LET p == IF levelOrder = "ascending"
                  THEN CHOOSE x \in keys : \A y \in keys : x <= y
                  ELSE CHOOSE x \in keys : \A y \in keys : y <= x
         IN  <<[price |-> p, quantity |-> m[p], side |-> side]>>
                \o LevelsOf(m, keys \ {p}, side, levelOrder)

AggregatedStack(stack, side, levelOrder) ==
    LevelsOf(AggregateOrders(stack, 1, EmptyMap),
             DOMAIN AggregateOrders(stack, 1, EmptyMap), side, levelOrder)

StaticInitialisedOnce(old, new) == IF "product" \in DOMAIN old THEN old ELSE new

\* static OrderBook<T> aggregatedBook(...); aggregatedBook = OrderBook<T>(...)
StaticAssigned(old, new) == new

MarketDataService_AggregateDepth(w, productId) ==
    LET book == Lookup(w.orderBooks, productId, DefaultOrderBook)
        made == [product |-> book.product,
                 bidStack |-> AggregatedStack(book.bidStack, "BID", w.env.levelOrder),
                 offerStack |-> AggregatedStack(book.offerStack, "OFFER",
                                                w.env.levelOrder)]
    IN  WithResult([w EXCEPT !.orderBooks = Put(@, productId, book),
                             !.aggregatedBook = StaticAssigned(@, made)],
                   StaticAssigned(w.aggregatedBook, made))

(***************************************************************************)
(* Fractional prices (utility.hpp).  A text is the sequence of its         *)
(* characters; a price is a whole number of 1/256.                         *)
(***************************************************************************)
DigitChars == {"0", "1", "2", "3", "4", "5", "6", "7", "8", "9"}

\* c - '0', for the characters of the texts; "NUL" is the terminating
\* character that operator[] yields at index size()
CharMinusZero(c) ==
    CASE c = "0" -> 0 [] c = "1" -> 1 [] c = "2" -> 2 [] c = "3" -> 3 [] c = "4" -> 4
      [] c = "5" -> 5 [] c = "6" -> 6 [] c = "7" -> 7 [] c = "8" -> 8 [] c = "9" -> 9
      [] c = "+" -> 0 - 5 [] c = "-" -> 0 - 3 [] c = "a" -> 49 [] c = "NUL" -> 0 - 48

\* the value of the digits of text from position i on, up to the first
\* character that is not a digit, after the digits read so far (acc)
RECURSIVE DigitsFrom(_, _, _)
DigitsFrom(text, i, acc) ==
    IF i > Len(text) \/ text[i] \notin DigitChars THEN acc
    ELSE DigitsFrom(text, i + 1, 10 * acc + CharMinusZero(text[i]))

\* std::stoi / std::stod on these texts: an optional sign, then the longest
\* run of digits; what follows is ignored; no digit at all is invalid_argument
stoi(text) ==
    LET start == IF text # <<>> /\ text[1] \in {"+", "-"} THEN 2 ELSE 1
    IN  IF start > Len(text) \/ text[start] \notin DigitChars
        THEN [thrown |-> TRUE, what |-> "std::invalid_argument"]
        ELSE [thrown |-> FALSE,
              value |-> IF text[1] = "-" THEN 0 - DigitsFrom(text, start, 0)
                        ELSE DigitsFrom(text, start, 0)]

\* fractional.find('-'): the position of the first dash, 0 if there is none
RECURSIVE FindDash(_, _)
FindDash(text, i) ==
    IF i > Len(text) THEN 0
    ELSE IF text[i] = "-" THEN i
    ELSE FindDash(text, i + 1)

\* fractional[dashPos + 3]: the character, the terminating character at index
\* size(), and beyond that a read past the end of the string (stray)
CharAt(text, i, stray) ==
    IF i <= Len(text) THEN Stray(text[i])
    ELSE IF i = Len(text) + 1 THEN Stray("NUL")
    ELSE stray

\* a mutant of ZOf: '4' is not taken for the mark of four
ZOfPlusIsFive(zChar) == IF zChar = "+" THEN 5 ELSE CharMinusZero(zChar)

\* (zChar == '+') ? 4 : zChar - '0'
ZOf(zChar) == IF zChar = "+" THEN 4 ELSE CharMinusZero(zChar)

\* !(xy < 0 || xy > 31 || z < 0 || z > 7)
ComponentsValid(xy, z) == ~(xy < 0 \/ xy > 31 \/ z < 0 \/ z > 7)

\* the outcomes of a conversion: an exception, or a fault of the process
Thrown(what) == [thrown |-> TRUE, fault |-> FALSE, what |-> what]

Faulted == [thrown |-> FALSE, fault |-> TRUE]

\* std::string::substr, from position first to position last (1-based), cut
\* at the end of the text
substr(text, first, last) ==
    IF first > Len(text) \/ last < first THEN <<>>
    ELSE SubSeq(text, first, IF last > Len(text) THEN Len(text) ELSE last)

\* string2price, the dash being at position d (1-based)
String2PriceAt(fractional, d, stray) ==
    IF stoi(substr(fractional, 1, d - 1)).thrown
    THEN Thrown("std::invalid_argument")
    ELSE IF stoi(substr(fractional, d + 1, d + 2)).thrown
    THEN Thrown("std::invalid_argument")
    ELSE IF CharAt(fractional, d + 3, stray).fault THEN Faulted
    ELSE IF ~ComponentsValid(stoi(substr(fractional, d + 1, d + 2)).value,
                             ZOf(CharAt(fractional, d + 3, stray).order))
    THEN Thrown("std::invalid_argument")
    ELSE [thrown |-> FALSE, fault |-> FALSE,
          price |-> 256 * stoi(substr(fractional, 1, d - 1)).value
                      + 8 * stoi(substr(fractional, d + 1, d + 2)).value
                      + ZOf(CharAt(fractional, d + 3, stray).order)]

\* string2price: the price, an exception thrown, or a fault of the read past
\* the end
string2price(fractional, stray) ==
    IF FindDash(fractional, 1) = 0
    THEN Thrown("std::invalid_argument")
    ELSE String2PriceAt(fractional, FindDash(fractional, 1), stray)

\* std::to_string of a non-negative int
RECURSIVE to_string(_)
to_string(n) ==
    IF n < 10 THEN <<CHOOSE c \in DigitChars : CharMinusZero(c) = n>>
    ELSE Append(to_string(n \div 10), CHOOSE c \in DigitChars : CharMinusZero(c) = n % 10)

\* price2string of a non-negative price: base, "-", XY in two digits, z with
\* '+' for 4
price2string(decimal) ==
    to_string(decimal \div 256) \o <<"-">>
        \o (IF (decimal % 256) \div 8 < 10 THEN <<"0">> ELSE <<>>)
        \o to_string((decimal % 256) \div 8)
        \o <<(IF decimal % 8 = 4 THEN "+"
              ELSE CHOOSE c \in DigitChars : CharMinusZero(c) = decimal % 8)>>

(***************************************************************************)
(* MarketDataConnector::Subscribe.  A line of the file is the sequence of  *)
(* its comma-separated tokens (the empty line has none).  One iteration of *)
(* the read loop handles one line; the locals of Subscribe live in feed    *)
(* between iterations.                                                     *)
(***************************************************************************)
\* CUSIP -> maturity in years
bondId ==
    [id \in {"912828V23", "912828W22", "912828X21", "912828Y20", "912828Z19",
             "912810FZ8", "912810GZ6"} |->
        CASE id = "912828V23" -> 2
          [] id = "912828W22" -> 3
          [] id = "912828X21" -> 5
          [] id = "912828Y20" -> 7
          [] id = "912828Z19" -> 10
          [] id = "912810FZ8" -> 20
          [] id = "912810GZ6" -> 30]

\* the price of a well-formed price text of the feed, in 1/256
FeedPrice(fractional) == string2price(fractional, Fault).price

\* decimal text -> long, for the quantity texts of the feed
stol(text) ==
    CASE text = "1000000" -> 1000000
      [] text = "2000000" -> 2000000

\* (tokens[3] == "BID") ? BID : OFFER
ParsedSide(token) == IF token = "BID" THEN "BID" ELSE "OFFER"

\* Order newOrder(parsedPrice, parsedQty, parsedSide)
NewOrder(tokens) ==
    [price |-> FeedPrice(tokens[2]), quantity |-> stol(tokens[3]),
     side |-> ParsedSide(tokens[4])]

\* the call of Subscribe, up to the loop: the locals are initialised
MarketDataConnector_Subscribe(w) ==
    [w EXCEPT !.feed = [pc |-> "reading", combinedThreshold |-> w.bookDepth * 2,
                        orderCount |-> 0, tempBidStack |-> <<>>,
                        tempOfferStack |-> <<>>]]

\* the order of the line joins the stack of its side; ++orderCount
MarketDataConnector_PushOrder(w, tokens) ==
    [w EXCEPT !.feed.tempBidStack =
                  IF ParsedSide(tokens[4]) = "BID" THEN Append(@, NewOrder(tokens)) ELSE @,
              !.feed.tempOfferStack =
                  IF ParsedSide(tokens[4]) = "BID" THEN @ ELSE Append(@, NewOrder(tokens)),
              !.feed.orderCount = @ + 1,
              !.feedLog.accepted = Append(@, tokens)]

\* a mutant of EmitDue: only the first batch is due
EmitDueFirstOnly(orderCount, combinedThreshold) == orderCount = combinedThreshold

\* orderCount % combinedThreshold == 0
EmitDue(orderCount, combinedThreshold) == orderCount % combinedThreshold = 0

\* tempBidStack.clear(); tempOfferStack.clear(), once OnMessage has returned
MarketDataConnector_ClearStacks(w) ==
    IF w.exc # "none" THEN w
    ELSE [w EXCEPT !.feed.tempBidStack = <<>>, !.feed.tempOfferStack = <<>>]

\* the book assembled from the stacks, under the product of the current line
AssembledBook(w, productIdStr) ==
    [product |-> productIdStr, bidStack |-> w.feed.tempBidStack,
     offerStack |-> w.feed.tempOfferStack]

\* GetBond(productIdStr) (bondId.at throws for an unknown id), the book is
\* assembled and handed to the service, the stacks are cleared
MarketDataConnector_Emit(w, productIdStr) ==
    IF productIdStr \notin DOMAIN bondId THEN [w EXCEPT !.exc = "std::out_of_range"]
    ELSE MarketDataConnector_ClearStacks(
            MarketDataService_OnMessage(
                [w EXCEPT !.feedLog.snapshots =
                              Append(@, [book |-> AssembledBook(w, productIdStr),
                                         at |-> w.feed.orderCount])],
                AssembledBook(w, productIdStr)))

MarketDataConnector_EmitIfDue(w, productIdStr) ==
    IF EmitDue(w.feed.orderCount, w.feed.combinedThreshold)
    THEN MarketDataConnector_Emit(w, productIdStr)
    ELSE w

\* one iteration of the read loop, for the line with these tokens
MarketDataConnector_ReadLine(w, tokens) ==
    IF tokens = <<>> THEN w
    ELSE IF Len(tokens) < 4 THEN w
    ELSE MarketDataConnector_EmitIfDue(MarketDataConnector_PushOrder(w, tokens),
                                       tokens[1])

\* getline finds the end of the file: Subscribe returns
MarketDataConnector_EndOfFile(w) == [w EXCEPT !.feed.pc = "done"]

(***************************************************************************)
(* InquiryService and its connector                                        *)
(***************************************************************************)
InquiryStates == {"RECEIVED", "QUOTED", "DONE", "REJECTED", "CUSTOMER_REJECTED"}

InquiryListenerKinds == {"HistoricalInquiry"}

\* the value operator[] inserts for an absent id: a value-initialised Inquiry,
\* whose state is the first enumerator
DefaultInquiry ==
    [inquiryId |-> "", product |-> "", side |-> "BUY", quantity |-> 0, price |-> 0,
     state |-> "RECEIVED"]

\* ProcessAdd of a ServiceListener<Inquiry<T>>
InquiryListener_ProcessAdd(w, lst, data) ==
    HistoricalDataListener_ProcessAdd(w, "Inquiry", data)

RECURSIVE InquiryService_Notify(_, _, _)
InquiryService_Notify(w, i, data) ==
    IF w.exc # "none" \/ i > Len(w.inquiryListeners) THEN w
    ELSE InquiryService_Notify(
            Returned(InquiryListener_ProcessAdd(
                         LogCall(w, "Inquiry", i, w.inquiryListeners[i], data),
                         w.inquiryListeners[i], data), "Inquiry", i),
            i + 1, data)

RECURSIVE InquiryService_OnMessage(_, _)

\* Subscribe(Inquiry<T>&): hands the inquiry back to the service
InquiryConnector_Subscribe(w, data) == InquiryService_OnMessage(w, data)

InquiryConnector_PublishNoResubmit(w, data) == w

\* Subscribe has returned to Publish, that is, the inner OnMessage has returned
\* to the activation that re-submitted: logged as "resumed", with the store and
\* the caller's inquiry as they are then
Resumed(w) ==
    IF w.exc # "none" THEN w
    ELSE [w EXCEPT !.trace = Append(@, [ev |-> "resumed", inquiries |-> w.inquiries,
                                        inquiry |-> w.lastOp.result])]

\* a mutant of InquiryConnector_Publish: the inquiry is set to QUOTED and not
\* re-submitted
InquiryConnector_PublishQuotedOnly(w, data) ==
    IF data.state = "RECEIVED" THEN WithResult(w, [data EXCEPT !.state = "QUOTED"])
    ELSE w

\* a RECEIVED inquiry becomes QUOTED and is re-submitted (logged as "resubmit").
\* The inquiry is passed by reference all along: what SetState writes is
\* written to the caller's object, kept as the result of the top-level call.
InquiryConnector_Publish(w, data) ==
    IF data.state = "RECEIVED"
    THEN Resumed(InquiryConnector_Subscribe(
             WithResult([w EXCEPT !.trace = Append(@, [ev |-> "resubmit",
                                            data |-> [data EXCEPT !.state = "QUOTED"]])],
                        [data EXCEPT !.state = "QUOTED"]),
             [data EXCEPT !.state = "QUOTED"]))
    ELSE w

\* a mutant of InquiryService_OnMessage: the second test sees the inquiry as
\* Publish left it and the listeners are told again
InquiryService_OnMessageSecondTestLive(w, data) ==
    IF data.state = "RECEIVED"
    THEN InquiryService_Notify(
             InquiryConnector_Publish(
                 [w EXCEPT !.inquiries = Put(@, data.inquiryId, data)], data),
             1, [data EXCEPT !.state = "DONE"])
    ELSE IF data.state = "QUOTED"
    THEN InquiryService_Notify(
             WithResult([w EXCEPT !.inquiries = Put(@, data.inquiryId,
                                                    [data EXCEPT !.state = "DONE"])],
                        [data EXCEPT !.state = "DONE"]),
             1, [data EXCEPT !.state = "DONE"])
    ELSE w

\* a mutant of InquiryService_OnMessage: the inquiry is stored whatever its state
InquiryService_OnMessageStoring(w, data) ==
    IF data.state = "RECEIVED"
    THEN InquiryConnector_Publish(
             [w EXCEPT !.inquiries = Put(@, data.inquiryId, data)], data)
    ELSE IF data.state = "QUOTED"
    THEN InquiryService_Notify(
             WithResult([w EXCEPT !.inquiries = Put(@, data.inquiryId,
                                                    [data EXCEPT !.state = "DONE"])],
                        [data EXCEPT !.state = "DONE"]),
             1, [data EXCEPT !.state = "DONE"])
    ELSE [w EXCEPT !.inquiries = Put(@, data.inquiryId, data)]

\* currentState is read once, on entry: the second test does not see what
\* Publish did to the inquiry
InquiryService_OnMessage(w, data) ==
    LET currentState == data.state
    IN  IF currentState = "RECEIVED"
        THEN InquiryConnector_Publish(
                 [w EXCEPT !.inquiries = Put(@, data.inquiryId, data)], data)
        ELSE IF currentState = "QUOTED"
        THEN InquiryService_Notify(
                 WithResult([w EXCEPT !.inquiries = Put(@, data.inquiryId,
                                                        [data EXCEPT !.state = "DONE"])],
                            [data EXCEPT !.state = "DONE"]),
                 1, [data EXCEPT !.state = "DONE"])
        ELSE w

InquiryService_SendQuoteSilent(w, inquiryId, price) ==
    [w EXCEPT !.inquiries =
        Put(@, inquiryId, [Lookup(@, inquiryId, DefaultInquiry) EXCEPT !.price = price])]

InquiryService_SendQuote(w, inquiryId, price) ==
    InquiryService_Notify(
        [w EXCEPT !.inquiries =
            Put(@, inquiryId,
                [Lookup(@, inquiryId, DefaultInquiry) EXCEPT !.price = price])],
        1, [Lookup(w.inquiries, inquiryId, DefaultInquiry) EXCEPT !.price = price])

InquiryService_RejectInquiryGuarded(w, inquiryId) ==
    IF Lookup(w.inquiries, inquiryId, DefaultInquiry).state
          \in {"DONE", "REJECTED", "CUSTOMER_REJECTED"}
    THEN w
    ELSE [w EXCEPT !.inquiries =
            Put(@, inquiryId,
                [Lookup(@, inquiryId, DefaultInquiry) EXCEPT !.state = "REJECTED"])]

InquiryService_RejectInquiry(w, inquiryId) ==
    [w EXCEPT !.inquiries =
        Put(@, inquiryId,
            [Lookup(@, inquiryId, DefaultInquiry) EXCEPT !.state = "REJECTED"])]

(***************************************************************************)
(* StreamingService                                                        *)
(***************************************************************************)
StreamingListenerKinds == {"HistoricalStreaming"}

\* ProcessAdd of a ServiceListener<PriceStream<T>>
PriceStreamListener_ProcessAdd(w, lst, data) ==
    HistoricalDataListener_ProcessAdd(w, "Streaming", data)

RECURSIVE StreamingService_Notify(_, _, _)
StreamingService_Notify(w, i, data) ==
    IF w.exc # "none" \/ i > Len(w.streamingListeners) THEN w
    ELSE StreamingService_Notify(
            Returned(PriceStreamListener_ProcessAdd(
                         LogCall(w, "Streaming", i, w.streamingListeners[i], data),
                         w.streamingListeners[i], data), "Streaming", i),
            i + 1, data)

StreamingService_OnMessage(w, dataObj) ==
    [w EXCEPT !.priceStreams = Put(@, dataObj.product, dataObj)]

StreamingService_PublishPrice(w, priceStreamObj) ==
    StreamingService_Notify(w, 1, priceStreamObj)

StreamingServiceListener_ProcessAdd(w, dataObj) ==
    StreamingService_PublishPrice(StreamingService_OnMessage(w, dataObj.priceStream),
                                  dataObj.priceStream)

(***************************************************************************)
(* AlgoStreamingService                                                    *)
(***************************************************************************)
AlgoStreamingListenerKinds == {"StreamingServiceListener"}

\* ProcessAdd of a ServiceListener<AlgoStream<T>>
AlgoStreamListener_ProcessAdd(w, lst, data) == StreamingServiceListener_ProcessAdd(w, data)

RECURSIVE AlgoStreamingService_Notify(_, _, _)
AlgoStreamingService_Notify(w, i, data) ==
    IF w.exc # "none" \/ i > Len(w.algoStreamingListeners) THEN w
    ELSE AlgoStreamingService_Notify(
            Returned(AlgoStreamListener_ProcessAdd(
                         LogCall(w, "AlgoStreaming", i, w.algoStreamingListeners[i], data),
                         w.algoStreamingListeners[i], data), "AlgoStreaming", i),
            i + 1, data)

\* a mutant of AlgoStreamOf: the lot size does not alternate
AlgoStreamOfOneTier(priceObj, count) ==
    [priceStream |->
        [product |-> priceObj.product,
         bidOrder |-> [price |-> priceObj.mid - (priceObj.bidOfferSpread \div 2),
                       visibleQuantity |-> 1000000, hiddenQuantity |-> 2000000,
                       side |-> "BID"],
         offerOrder |-> [price |-> priceObj.mid + (priceObj.bidOfferSpread \div 2),
                         visibleQuantity |-> 1000000, hiddenQuantity |-> 2000000,
                         side |-> "OFFER"]]]

\* a mutant of AlgoStreamOf: the whole spread on either side of the mid
AlgoStreamOfFullSpread(priceObj, count) ==
    LET visQty == ((count % 2) + 1) * 1000000
        hidQty == visQty * 2
    IN  [priceStream |->
            [product |-> priceObj.product,
             bidOrder |-> [price |-> priceObj.mid - priceObj.bidOfferSpread,
                           visibleQuantity |-> visQty, hiddenQuantity |-> hidQty,
                           side |-> "BID"],
             offerOrder |-> [price |-> priceObj.mid + priceObj.bidOfferSpread,
                             visibleQuantity |-> visQty, hiddenQuantity |-> hidQty,
                             side |-> "OFFER"]]]

\* the two-way quote built from a price when the publish counter is count
AlgoStreamOf(priceObj, count) ==
    LET visQty == ((count % 2) + 1) * 1000000
        hidQty == visQty * 2
    IN  [priceStream |->
            [product |-> priceObj.product,
             bidOrder |-> [price |-> priceObj.mid - (priceObj.bidOfferSpread \div 2),
                           visibleQuantity |-> visQty, hiddenQuantity |-> hidQty,
                           side |-> "BID"],
             offerOrder |-> [price |-> priceObj.mid + (priceObj.bidOfferSpread \div 2),
                             visibleQuantity |-> visQty, hiddenQuantity |-> hidQty,
                             side |-> "OFFER"]]]

AlgoStreamingService_AlgoPublishPrice(w, priceObj) ==
    AlgoStreamingService_Notify(
        [w EXCEPT !.pricePublishCount = @ + 1,
                  !.algoStreams = Put(@, priceObj.product,
                                      AlgoStreamOf(priceObj, w.pricePublishCount))],
        1, AlgoStreamOf(priceObj, w.pricePublishCount))

AlgoStreamingServiceListener_ProcessAdd(w, dataObj) ==
    AlgoStreamingService_AlgoPublishPrice(w, dataObj)

(***************************************************************************)
(* GUIService: prices are printed at most once per throttle interval       *)
(***************************************************************************)
THROTTLE_MILLISECONDS == 300

\* the clock reading (milliseconds within the second) raised by whole seconds
\* until it is not before the time of the last print
RaisedTime(now, time) ==
    IF now >= time THEN now ELSE now + 1000 * (((time - now) + 999) \div 1000)

GUIConnector_Publish(w, data) ==
    IF RaisedTime(w.env.now, w.timeCount) - w.timeCount >= THROTTLE_MILLISECONDS
    THEN [w EXCEPT !.timeCount = RaisedTime(w.env.now, w.timeCount),
                   !.trace = Append(@, [ev |-> "gui", data |-> data])]
    ELSE w

GUIService_OnMessage(w, data) ==
    GUIConnector_Publish([w EXCEPT !.GUIs = Put(@, data.product, data)], data)

GUIListener_ProcessAdd(w, data) == GUIService_OnMessage(w, data)

(***************************************************************************)
(* GetData of every service: return map[key], where operator[] inserts a   *)
(* value-initialised object for a key that is absent.                      *)
(***************************************************************************)
KeyedServices ==
    {"Pricing", "GUI", "AlgoStreaming", "Streaming", "MarketData", "AlgoExecution",
     "Execution", "TradeBooking", "Position", "Risk", "Inquiry"}

\* T(): zeros, empty strings and containers, the first enumerator, null pointers
DefaultValueOf(svc) ==
    CASE svc \in {"Pricing", "GUI"} -> [product |-> "", mid |-> 0, bidOfferSpread |-> 0]
      [] svc = "AlgoStreaming" -> [priceStream |-> "nullptr"]
      [] svc = "Streaming" ->
            [product |-> "",
             bidOrder |-> [price |-> 0, visibleQuantity |-> 0, hiddenQuantity |-> 0,
                           side |-> "BID"],
             offerOrder |-> [price |-> 0, visibleQuantity |-> 0, hiddenQuantity |-> 0,
                             side |-> "BID"]]
      [] svc = "MarketData" -> DefaultOrderBook
      [] svc = "AlgoExecution" -> [executionOrder |-> "nullptr"]
      [] svc = "Execution" ->
            [product |-> "", side |-> "BID", orderId |-> "", orderType |-> "FOK",
             price |-> 0, visibleQuantity |-> 0, hiddenQuantity |-> 0,
             parentOrderId |-> "", isChildOrder |-> FALSE]
      [] svc = "TradeBooking" ->
            [product |-> "", tradeId |-> "", price |-> 0, book |-> "", quantity |-> 0,
             side |-> "BUY"]
      [] svc = "Position" -> DefaultPosition
      [] svc = "Risk" -> DefaultPV01
      [] svc = "Inquiry" -> DefaultInquiry

\* the keyed store of a service, in the world w
StoreOf(w, svc) ==
    CASE svc = "Pricing" -> w.internalPriceMap
      [] svc = "GUI" -> w.GUIs
      [] svc = "AlgoStreaming" -> w.algoStreams
      [] svc = "Streaming" -> w.priceStreams
      [] svc = "MarketData" -> w.orderBooks
      [] svc = "AlgoExecution" -> w.algoExecutions
      [] svc = "Execution" -> w.executionOrders
      [] svc = "TradeBooking" -> w.trades
      [] svc = "Position" -> w.positions
      [] svc = "Risk" -> w.pv01s
      [] svc = "Inquiry" -> w.inquiries

\* the world w with the keyed store of a service replaced
WithStore(w, svc, store) ==
    CASE svc = "Pricing" -> [w EXCEPT !.internalPriceMap = store]
      [] svc = "GUI" -> [w EXCEPT !.GUIs = store]
      [] svc = "AlgoStreaming" -> [w EXCEPT !.algoStreams = store]
      [] svc = "Streaming" -> [w EXCEPT !.priceStreams = store]
      [] svc = "MarketData" -> [w EXCEPT !.orderBooks = store]
      [] svc = "AlgoExecution" -> [w EXCEPT !.algoExecutions = store]
      [] svc = "Execution" -> [w EXCEPT !.executionOrders = store]
      [] svc = "TradeBooking" -> [w EXCEPT !.trades = store]
      [] svc = "Position" -> [w EXCEPT !.positions = store]
      [] svc = "Risk" -> [w EXCEPT !.pv01s = store]
      [] svc = "Inquiry" -> [w EXCEPT !.inquiries = store]

\* a mutant of Service_GetData: an absent key is reported, nothing is inserted
Service_GetDataChecked(w, svc, key) ==
    IF key \in DOMAIN StoreOf(w, svc)
    THEN WithResult(w, StoreOf(w, svc)[key])
    ELSE [w EXCEPT !.exc = "NotFound"]

\* return store[key]
Service_GetData(w, svc, key) ==
    WithResult(WithStore(w, svc, Put(StoreOf(w, svc), key,
                                     Lookup(StoreOf(w, svc), key, DefaultValueOf(svc)))),
               Lookup(StoreOf(w, svc), key, DefaultValueOf(svc)))

(***************************************************************************)
(* PricingService                                                          *)
(***************************************************************************)
PriceListenerKinds == {"GUIListener", "AlgoStreamingServiceListener"}

\* ProcessAdd of a ServiceListener<Price<T>>
PriceListener_ProcessAdd(w, lst, data) ==
    IF lst = "GUIListener" THEN GUIListener_ProcessAdd(w, data)
    ELSE AlgoStreamingServiceListener_ProcessAdd(w, data)

RECURSIVE PricingService_Notify(_, _, _)
PricingService_Notify(w, i, data) ==
    IF w.exc # "none" \/ i > Len(w.priceSrvListeners) THEN w
    ELSE PricingService_Notify(
            Returned(PriceListener_ProcessAdd(
                         LogCall(w, "Pricing", i, w.priceSrvListeners[i], data),
                         w.priceSrvListeners[i], data), "Pricing", i),
            i + 1, data)

PricingService_OnMessage(w, data) ==
    PricingService_Notify([w EXCEPT !.internalPriceMap = Put(@, data.product, data)],
                          1, data)

\* main(): the services are linked in this order before any data is read
\* a mutant of Main_Link: the two listeners of the execution service, and of
\* the position service, are registered the other way round
Main_LinkHistoricalLast(w) ==
    [w EXCEPT !.priceSrvListeners = <<"GUIListener", "AlgoStreamingServiceListener">>,
              !.algoStreamingListeners = <<"StreamingServiceListener">>,
              !.streamingListeners = <<"HistoricalStreaming">>,
              !.marketDataListeners = <<"AlgoExecutionServiceListener">>,
              !.algoExecutionListeners = <<"ExecutionServiceListener">>,
              !.executionListeners = <<"TradeBookingServiceListener",
                                       "HistoricalExecution">>,
              !.tradeBookingListeners = <<"PositionServiceListener">>,
              !.positionListeners = <<"HistoricalPosition", "RiskServiceListener">>,
              !.riskListeners = <<"HistoricalRisk">>,
              !.inquiryListeners = <<"HistoricalInquiry">>]

Main_Link(w) ==
    [w EXCEPT !.priceSrvListeners = <<"GUIListener", "AlgoStreamingServiceListener">>,
              !.algoStreamingListeners = <<"StreamingServiceListener">>,
              !.streamingListeners = <<"HistoricalStreaming">>,
              !.marketDataListeners = <<"AlgoExecutionServiceListener">>,
              !.algoExecutionListeners = <<"ExecutionServiceListener">>,
              !.executionListeners = <<"HistoricalExecution",
                                       "TradeBookingServiceListener">>,
              !.tradeBookingListeners = <<"PositionServiceListener">>,
              !.positionListeners = <<"RiskServiceListener", "HistoricalPosition">>,
              !.riskListeners = <<"HistoricalRisk">>,
              !.inquiryListeners = <<"HistoricalInquiry">>]

(***************************************************************************)
(* Inputs                                                                  *)
(***************************************************************************)
Quantities == {200000, 400000, 1000000}

\* the trades handed to AddTrade and to TradeBookingService::OnMessage
TradeProducts == {"912828V23", "99999ZZ99"}

Trades ==
    [product : TradeProducts, tradeId : {<<"T", 1>>}, price : {25600},
     book : {"TRSY1", "TRSY2"}, quantity : Quantities, side : {"BUY", "SELL"}]

\* order books: two bid levels and two offer levels, spreads of 1, 2, 3 and 4
\* (in 1/256); either stack may be empty
BidOrders ==
    {[price |-> 25600, quantity |-> 1000000, side |-> "BID"],
     [price |-> 25601, quantity |-> 2000000, side |-> "BID"]}

OfferOrders ==
    {[price |-> 25602, quantity |-> 3000000, side |-> "OFFER"],
     [price |-> 25604, quantity |-> 5000000, side |-> "OFFER"]}

\* the stacks of up to MaxDepth distinct orders, in any order of arrival
StacksOver(orders) ==
    {s \in UNION {[1..k -> orders] : k \in 0..MaxDepth} :
        \A i, j \in DOMAIN s : i # j => s[i] # s[j]}

BookProducts == {"912828V23", "912828W22"}

OrderBooks ==
    [product : BookProducts, bidStack : StacksOver(BidOrders),
     offerStack : StacksOver(OfferOrders)]

\* what reading element 0 of an empty stack may yield: a fault or some order
StrayChoices(orders) == {Fault} \cup {Stray(o) : o \in orders}

\* the environment of a call that reads the best bid and offer of book
BookEnvs(book) ==
    [now : {0}, levelOrder : {"ascending"}, dangling : {Fault}, strayChar : {Fault},
     strayBid : IF book.bidStack = <<>> THEN StrayChoices(BidOrders) ELSE {Fault},
     strayOffer : IF book.offerStack = <<>> THEN StrayChoices(OfferOrders)
                  ELSE {Fault}]

\* inquiries as read from the inquiry file, in any state
InquiryIds == {"INQ1", "INQ2"}

Inquiries ==
    [inquiryId : InquiryIds, product : {"912828V23"}, side : {"BUY"},
     quantity : {1000000}, price : {25600}, state : InquiryStates]

QuotePrices == {25632, 25664}

\* the inputs of the linked pipeline: a product of the PV01 table and one
\* that is not in it
PipelineProducts == {"912828V23", "99999ZZ99"}

PipelineBooks ==
    [product : PipelineProducts,
     bidStack : {<<[price |-> 25600, quantity |-> 1000000, side |-> "BID"]>>},
     offerStack : {<<[price |-> 25602, quantity |-> 3000000, side |-> "OFFER"]>>,
                   <<[price |-> 25604, quantity |-> 5000000, side |-> "OFFER"]>>}]

PipelinePrices == [product : PipelineProducts, mid : {25600}, bidOfferSpread : {2}]

\* clock readings, in milliseconds within the second
ClockReadings == {100, 500}

PipelinePriceStreams == {AlgoStreamOf(p, 0).priceStream : p \in PipelinePrices}

PipelineOrders ==
    [product : PipelineProducts, side : {"BID"}, orderId : {<<"AlgoExec", 1>>},
     orderType : {"MARKET"}, price : {25600}, visibleQuantity : {1000000},
     hiddenQuantity : {0}, parentOrderId : {"PARENT_ORDER_ID"}, isChildOrder : {FALSE}]

PipelineTrades ==
    [product : PipelineProducts, tradeId : {<<"T", 1>>}, price : {25600},
     book : {"TRSY1"}, quantity : {1000000}, side : {"BUY", "SELL"}]

PipelinePositions ==
    {Position_AddPosition(NewPosition(p), "TRSY1", 1000000) : p \in PipelineProducts}

\* order books with several orders at one price: three bids and three offers,
\* stacks of up to MaxDepth of them in any order, either side possibly empty
TiedBidOrders ==
    {[price |-> 25600, quantity |-> 1000000, side |-> "BID"],
     [price |-> 25601, quantity |-> 2000000, side |-> "BID"],
     [price |-> 25601, quantity |-> 3000000, side |-> "BID"]}

TiedOfferOrders ==
    {[price |-> 25602, quantity |-> 1000000, side |-> "OFFER"],
     [price |-> 25602, quantity |-> 2000000, side |-> "OFFER"],
     [price |-> 25603, quantity |-> 3000000, side |-> "OFFER"]}

\* (books with several orders on one side have at most one on the other)
RawBooks ==
    {b \in [product : {"912828V23"}, bidStack : StacksOver(TiedBidOrders),
            offerStack : StacksOver(TiedOfferOrders)] :
        Len(b.bidStack) <= 1 \/ Len(b.offerStack) <= 1}

LevelOrders == {"ascending", "descending"}

\* the books above and the books AggregateDepth makes of them
TiedBooks ==
    RawBooks \cup
    {[product |-> b.product,
      bidStack |-> AggregatedStack(b.bidStack, "BID", lo),
      offerStack |-> AggregatedStack(b.offerStack, "OFFER", lo)] :
        b \in RawBooks, lo \in LevelOrders}

\* the product ids asked for: one that is ingested and one that never is
QueriedProducts == {"912828V23", "912828W22"}

(***************************************************************************)
(* Actions: construction, registration (as in main, before any data is     *)
(* ingested) and the top-level calls.                                      *)
(***************************************************************************)
\* prices with several mids and spreads (in 1/256; the spreads are even, so
\* that half a spread is on the grid)
StreamPrices ==
    [product : {"912828V23", "912828W22"}, mid : {25600, 25601},
     bidOfferSpread : {2, 4}]

\* positions handed to the risk service: one book or two, of two bonds of
\* the PV01 table and of a product that is not in it
RiskPositions ==
    {Position_AddPosition(Position_AddPosition(NewPosition(p), "TRSY1", q), "TRSY2", r) :
        p \in {"912828V23", "912828W22", "99999ZZ99"}, q \in {1000000, 2000000},
        r \in {0, 0 - 400000}}

\* sectors: the products of a bucket, in order
Sectors ==
    {[name |-> "FrontEnd", products |-> <<"912828V23", "912828W22">>],
     [name |-> "TwoYear", products |-> <<"912828V23">>]}

\* what a read through a dangling reference may yield: a fault, the bytes of
\* the destroyed temporary still intact, or whatever overwrote them
DanglingChoices ==
    {Fault, [fault |-> FALSE, intact |-> TRUE],
     [fault |-> FALSE, intact |-> FALSE, value |-> DefaultPV01]}

\* the keys asked of the services: a product id and an inquiry id
LookupKeys == {"912828V23", "INQ1"}

\* the lines of a market data file: empty, too short, and order lines
FeedLines ==
    {<<>>, <<"912828V23", <<"1", "0", "0", "-", "0", "0", "0">> >>,
     <<"912828V23", <<"1", "0", "0", "-", "0", "0", "0">>, "1000000", "BID">>,
     <<"912828V23", <<"1", "0", "0", "-", "0", "0", "1">>, "1000000", "OFFER">>,
     <<"912828W22", <<"1", "0", "0", "-", "0", "0", "0">>, "2000000", "BID">>,
     <<"912828W22", <<"1", "0", "0", "-", "0", "0", "2">>, "2000000", "OFFER">>}

\* every field but the depth of the books is as the constructors leave it
ConstructedButDepth ==
    /\ internalPriceMap = Constructed.internalPriceMap
    /\ priceSrvListeners = Constructed.priceSrvListeners
    /\ GUIs = Constructed.GUIs
    /\ timeCount = Constructed.timeCount
    /\ algoStreams = Constructed.algoStreams
    /\ algoStreamingListeners = Constructed.algoStreamingListeners
    /\ pricePublishCount = Constructed.pricePublishCount
    /\ priceStreams = Constructed.priceStreams
    /\ streamingListeners = Constructed.streamingListeners
    /\ orderBooks = Constructed.orderBooks
    /\ marketDataListeners = Constructed.marketDataListeners
    /\ aggregatedBook = Constructed.aggregatedBook
    /\ algoExecutions = Constructed.algoExecutions
    /\ algoExecutionListeners = Constructed.algoExecutionListeners
    /\ executionCount = Constructed.executionCount
    /\ executionOrders = Constructed.executionOrders
    /\ executionListeners = Constructed.executionListeners
    /\ trades = Constructed.trades
    /\ tradeBookingListeners = Constructed.tradeBookingListeners
    /\ bookedCount = Constructed.bookedCount
    /\ positions = Constructed.positions
    /\ positionListeners = Constructed.positionListeners
    /\ pv01s = Constructed.pv01s
    /\ riskListeners = Constructed.riskListeners
    /\ inquiries = Constructed.inquiries
    /\ inquiryListeners = Constructed.inquiryListeners
    /\ exc = Constructed.exc
    /\ trace = Constructed.trace
    /\ lastOp = Constructed.lastOp
    /\ opCount = Constructed.opCount
    /\ env = Constructed.env
    /\ emitted = Constructed.emitted
    /\ applied = Constructed.applied
    /\ feed = Constructed.feed
    /\ feedLog = Constructed.feedLog

Init ==
    /\ ConstructedButDepth
    /\ bookDepth = Constructed.bookDepth

Running == exc = "none"

PositionService_AddListener ==
    \E lst \in PositionListenerKinds :
        /\ Running /\ opCount = 0
        /\ Len(positionListeners) < MaxListeners
        /\ Apply([World EXCEPT !.positionListeners = Append(@, lst)])

\* a top-level call of PositionService::AddTrade with a trade of the set inputs
AddTrade(inputs) ==
    /\ Running /\ opCount < MaxOps
    /\ \E tradeObj \in inputs :
          Apply(PositionService_AddTrade(Enter("AddTrade", tradeObj, NoEnv), tradeObj))

(***************************************************************************)
(* SpecPosition: the position service driven by direct AddTrade calls.     *)
(***************************************************************************)
NextPosition ==
    \/ PositionService_AddListener
    \/ AddTrade(Trades)

SpecPosition == Init /\ [][NextPosition]_vars

(***************************************************************************)
(* C1: after any sequence of AddTrade calls, the stored quantity of every  *)
(* product and book is the sum of the signed quantities (+ for BUY, - for  *)
(* SELL) of the trades applied to that product and book, and               *)
(* GetAggregatePosition is the sum over all trades applied to the product. *)
(***************************************************************************)
StoredPosition(p) == Lookup(positions, p, DefaultPosition)

AppliedTo(p) == SumOver(applied, {k \in DOMAIN applied : k[1] = p})

C1_PositionIsSignedSum ==
    \A p \in ProductIds :
        /\ \A b \in {"TRSY1", "TRSY2", "TRSY3"} :
              Lookup(StoredPosition(p).bookPositions, b, 0) = Lookup(applied, <<p, b>>, 0)
        /\ Position_GetAggregatePosition(StoredPosition(p)) = AppliedTo(p)

\* BUY 1,000,000 in one book, SELL 400,000 in it, BUY 200,000 in another
C1_Witness ==
    /\ opCount = 3
    /\ "912828V23" \in DOMAIN positions
    /\ positions["912828V23"].bookPositions
          = [b \in {"TRSY1", "TRSY2"} |-> IF b = "TRSY1" THEN 600000 ELSE 200000]
    /\ Position_GetAggregatePosition(positions["912828V23"]) = 800000
    /\ lastOp.arg.book = "TRSY2"


(***************************************************************************)
(* SpecAlgo: the algo execution service driven by direct                   *)
(* AlgoExecutionTrade calls, its listeners executing the orders.           *)
(***************************************************************************)
AlgoExecutionService_AddListener ==
    \E lst \in AlgoExecutionListenerKinds :
        /\ Running /\ opCount = 0
        /\ Len(algoExecutionListeners) < MaxListeners
        /\ Apply([World EXCEPT !.algoExecutionListeners = Append(@, lst)])

AlgoExecutionTrade(inputs) ==
    /\ Running /\ opCount < MaxOps
    /\ \E book \in inputs : \E e \in BookEnvs(book) :
          Apply(AlgoExecutionService_AlgoExecutionTrade(
                    Enter("AlgoExecutionTrade", book, e), book))

NextAlgo ==
    \/ AlgoExecutionService_AddListener
    \/ AlgoExecutionTrade(OrderBooks)

SpecAlgo == Init /\ [][NextAlgo]_vars

\* the prices of a stack, its highest and its lowest
PricesOf(stack) == {stack[i].price : i \in 1..Len(stack)}

MaxOf(S) == CHOOSE x \in S : \A y \in S : y <= x

MinOf(S) == CHOOSE x \in S : \A y \in S : x <= y

\* offer minus bid at the top of a book with two non-empty sides
SpreadOf(book) == MinOf(PricesOf(book.offerStack)) - MaxOf(PricesOf(book.bidStack))

TwoSided(book) == book.bidStack # <<>> /\ book.offerStack # <<>>

\* the listener calls of service svc in a trace: <<listener number, data>> in order
RECURSIVE CallsOf(_, _)
CallsOf(tr, svc) ==
    IF tr = <<>> THEN <<>>
    ELSE LET rest == CallsOf(Tail(tr), svc)
         IN  IF Head(tr).ev = "call" /\ Head(tr).svc = svc
             THEN <<(<<Head(tr).idx, Head(tr).data>>)>> \o rest
             ELSE rest

\* this step is a top-level AlgoExecutionTrade call
AlgoStep == opCount' = opCount + 1 /\ lastOp'.name = "AlgoExecutionTrade"

(***************************************************************************)
(* C2: for every snapshot (with a best bid and a best offer) passed to     *)
(* AlgoExecutionTrade: if best offer - best bid > 1/128 nothing is         *)
(* emitted, no listener is notified and the counter and the stored         *)
(* executions are unchanged; otherwise exactly one ExecutionOrder is       *)
(* produced, stored under the product id of the snapshot and delivered     *)
(* once to each listener.                                                  *)
(***************************************************************************)
C2_Step ==
    (AlgoStep /\ TwoSided(lastOp'.arg)) =>
        LET book == lastOp'.arg
        IN  IF SpreadOf(book) > SpreadThreshold
            THEN /\ emitted' = emitted
                 /\ executionCount' = executionCount
                 /\ algoExecutions' = algoExecutions
                 /\ trace' = <<>>
            ELSE /\ Len(emitted') = Len(emitted) + 1
                 /\ SubSeq(emitted', 1, Len(emitted)) = emitted
                 /\ executionCount' = executionCount + 1
                 /\ LET order == emitted'[Len(emitted')].order
                    IN  /\ order.product = book.product
                        /\ algoExecutions' = Put(algoExecutions, book.product,
                                                 [executionOrder |-> order])
                        /\ CallsOf(trace', "AlgoExecution")
                              = [i \in 1..Len(algoExecutionListeners) |->
                                    <<i, [executionOrder |-> order]>>]

C2_SpreadFilterDecides == [][C2_Step]_vars

\* a snapshot at exactly 1/128 executed after one that failed the filter, two listeners
C2_Witness ==
    /\ lastOp.name = "AlgoExecutionTrade"
    /\ TwoSided(lastOp.arg) /\ SpreadOf(lastOp.arg) = SpreadThreshold
    /\ opCount = 2 /\ Len(emitted) = 1
    /\ Len(algoExecutionListeners) = 2
    /\ Len(CallsOf(trace, "AlgoExecution")) = 2

(***************************************************************************)
(* C3: any two consecutively emitted ExecutionOrders have opposite sides,  *)
(* whatever their products and however many snapshots failed the filter    *)
(* between them.                                                           *)
(***************************************************************************)
C3_SidesAlternate ==
    \A i \in 1..(Len(emitted) - 1) : emitted[i].order.side # emitted[i + 1].order.side

\* two orders for different products with a filtered snapshot between them
C3_Witness ==
    /\ Len(emitted) = 2
    /\ emitted[1].at = 1 /\ emitted[2].at = 3
    /\ emitted[1].order.product # emitted[2].order.product

(***************************************************************************)
(* C4: the side of an executed order is selected by the parity of the      *)
(* counter.  As claimed: by the counter value n of its id AlgoExec<n>,     *)
(* best bid (price, quantity, side BID) when n is odd, best offer when n   *)
(* is even.                                                                *)
(***************************************************************************)
\* the order emitted by this step trades at the best bid / at the best offer of its book
AtBestBid(order, book) ==
    /\ order.side = "BID"
    /\ order.price = MaxOf(PricesOf(book.bidStack))
    /\ \E i \in 1..Len(book.bidStack) :
          book.bidStack[i].price = order.price
          /\ book.bidStack[i].quantity = order.visibleQuantity

AtBestOffer(order, book) ==
    /\ order.side = "OFFER"
    /\ order.price = MinOf(PricesOf(book.offerStack))
    /\ \E i \in 1..Len(book.offerStack) :
          book.offerStack[i].price = order.price
          /\ book.offerStack[i].quantity = order.visibleQuantity

EmittingStep == AlgoStep /\ TwoSided(lastOp'.arg) /\ Len(emitted') = Len(emitted) + 1

C4_Original_Step ==
    EmittingStep =>
        LET order == emitted'[Len(emitted')].order
            n == order.orderId[2]
        IN  IF n % 2 = 1 THEN AtBestBid(order, lastOp'.arg)
            ELSE AtBestOffer(order, lastOp'.arg)

C4_Original == [][C4_Original_Step]_vars

(***************************************************************************)
(* C4 as amended: the side is selected by the parity of the counter before *)
(* its increment, that is of n - 1 for the id AlgoExec<n>: best offer when *)
(* n is odd (AlgoExec1 trades at the offer), best bid when n is even.      *)
(***************************************************************************)
C4_Amended_Step ==
    EmittingStep =>
        LET order == emitted'[Len(emitted')].order
            n == order.orderId[2]
        IN  /\ order.orderId[1] = "AlgoExec"
            /\ IF n % 2 = 0 THEN AtBestBid(order, lastOp'.arg)
               ELSE AtBestOffer(order, lastOp'.arg)

C4_Amended == [][C4_Amended_Step]_vars

\* AlgoExec1 at the offer, then AlgoExec2 at the bid
C4_Witness ==
    /\ Len(emitted) = 2
    /\ emitted[1].order.orderId = <<"AlgoExec", 1>> /\ emitted[1].order.side = "OFFER"
    /\ emitted[2].order.orderId = <<"AlgoExec", 2>> /\ emitted[2].order.side = "BID"
    /\ TwoSided(lastOp.arg) /\ emitted[2].at = opCount

(***************************************************************************)
(* C5: the execution counter equals the number of ExecutionOrders emitted  *)
(* so far, and the ids of the emitted orders are AlgoExec1, AlgoExec2, ... *)
(* in emission order, without gap or repetition, across all products.      *)
(***************************************************************************)
C5_CounterAndIds ==
    /\ executionCount = Len(emitted)
    /\ \A i \in 1..Len(emitted) : emitted[i].order.orderId = <<"AlgoExec", i>>

C5_Witness ==
    /\ Len(emitted) = 3 /\ executionCount = 3
    /\ emitted[1].order.product # emitted[2].order.product

(***************************************************************************)
(* SpecInquiry: the inquiry service                                        *)
(***************************************************************************)
InquiryService_AddListener ==
    \E lst \in InquiryListenerKinds :
        /\ Running /\ opCount = 0
        /\ Len(inquiryListeners) < MaxListeners
        /\ Apply([World EXCEPT !.inquiryListeners = Append(@, lst)])

OnMessageInquiry ==
    /\ Running /\ opCount < MaxOps
    /\ \E data \in Inquiries :
          Apply(InquiryService_OnMessage(Enter("InquiryService::OnMessage", data, NoEnv),
                                         data))

SendQuote ==
    /\ Running /\ opCount < MaxOps
    /\ \E id \in InquiryIds : \E price \in QuotePrices :
          Apply(InquiryService_SendQuote(
                    Enter("SendQuote", [inquiryId |-> id, price |-> price], NoEnv),
                    id, price))

RejectInquiry ==
    /\ Running /\ opCount < MaxOps
    /\ \E id \in InquiryIds :
          Apply(InquiryService_RejectInquiry(
                    Enter("RejectInquiry", [inquiryId |-> id], NoEnv), id))

NextInquiry ==
    \/ InquiryService_AddListener
    \/ OnMessageInquiry
    \/ SendQuote
    \/ RejectInquiry

SpecInquiry == Init /\ [][NextInquiry]_vars

\* this step is a top-level call of the operation name
StepOf(name) == opCount' = opCount + 1 /\ lastOp'.name = name

\* every inquiry listener is called once, in order, with data
InquiryListenersNotified(tr, data) ==
    CallsOf(tr, "Inquiry") = [i \in 1..Len(inquiryListeners) |-> <<i, data>>]

\* the stored inquiries other than id are as they were
OtherInquiriesUnchanged(id) ==
    /\ DOMAIN inquiries' = DOMAIN inquiries \cup {id}
    /\ \A k \in DOMAIN inquiries : k # id => inquiries'[k] = inquiries[k]

(***************************************************************************)
(* C6: OnMessage on a RECEIVED inquiry stores it, sets it to QUOTED and    *)
(* re-submits it before any listener is notified; the re-submitted         *)
(* inquiry is set to DONE, stored under its id, and every registered       *)
(* listener is notified exactly once (with the DONE inquiry).              *)
(***************************************************************************)
C6_Step ==
    (StepOf("InquiryService::OnMessage") /\ lastOp'.arg.state = "RECEIVED") =>
        LET data == lastOp'.arg
            quoted == [data EXCEPT !.state = "QUOTED"]
            done == [data EXCEPT !.state = "DONE"]
        IN  /\ trace' # <<>>
            /\ trace'[1] = [ev |-> "resubmit", data |-> quoted]
            /\ \A j \in 2..Len(trace') : trace'[j].ev # "resubmit"
            /\ InquiryListenersNotified(trace', done)
            /\ inquiries'[data.inquiryId] = done
            /\ OtherInquiriesUnchanged(data.inquiryId)

C6_ReceivedToDone == [][C6_Step]_vars

C6_Witness ==
    /\ lastOp.name = "InquiryService::OnMessage" /\ lastOp.arg.state = "RECEIVED"
    /\ Len(inquiryListeners) = 2
    /\ Len(CallsOf(trace, "Inquiry")) = 2
    /\ inquiries[lastOp.arg.inquiryId].state = "DONE"

(***************************************************************************)
(* C7: DONE, REJECTED and CUSTOMER_REJECTED are terminal: once the stored  *)
(* inquiry of an id is in one of them, no operation changes its stored     *)
(* state.                                                                  *)
(***************************************************************************)
TerminalStates == {"DONE", "REJECTED", "CUSTOMER_REJECTED"}

C7_Step ==
    \A id \in DOMAIN inquiries :
        inquiries[id].state \in TerminalStates =>
            id \in DOMAIN inquiries' /\ inquiries'[id].state = inquiries[id].state

C7_TerminalStatesStay == [][C7_Step]_vars

(***************************************************************************)
(* C8: RejectInquiry(id) sets the stored state of id to REJECTED whatever  *)
(* it was, changes no other field of that inquiry and no other inquiry,    *)
(* and notifies no listener.                                               *)
(***************************************************************************)
C8_Step ==
    StepOf("RejectInquiry") =>
        LET id == lastOp'.arg.inquiryId
            old == IF id \in DOMAIN inquiries THEN inquiries[id] ELSE DefaultInquiry
        IN  /\ inquiries'[id].state = "REJECTED"
            /\ \A f \in DOMAIN old : f # "state" => inquiries'[id][f] = old[f]
            /\ OtherInquiriesUnchanged(id)
            /\ trace' = <<>>

C8_RejectUnconditional == [][C8_Step]_vars

\* a DONE inquiry has been rejected, with a listener registered
C8_Witness ==
    /\ lastOp.name = "RejectInquiry"
    /\ opCount = 2 /\ Len(inquiryListeners) >= 1
    /\ inquiries[lastOp.arg.inquiryId].state = "REJECTED"
    /\ inquiries[lastOp.arg.inquiryId].inquiryId = lastOp.arg.inquiryId
    /\ trace = <<>>

(***************************************************************************)
(* C9: SendQuote(id, price) overwrites the price of the stored inquiry id, *)
(* leaves its state, its other fields and every other stored inquiry       *)
(* unchanged, and notifies every registered listener exactly once with     *)
(* the updated record.                                                     *)
(***************************************************************************)
C9_Step ==
    StepOf("SendQuote") =>
        LET id == lastOp'.arg.inquiryId
            old == IF id \in DOMAIN inquiries THEN inquiries[id] ELSE DefaultInquiry
        IN  /\ inquiries'[id].price = lastOp'.arg.price
            /\ \A f \in DOMAIN old : f # "price" => inquiries'[id][f] = old[f]
            /\ OtherInquiriesUnchanged(id)
            /\ InquiryListenersNotified(trace', inquiries'[id])

C9_SendQuoteOverwritesPrice == [][C9_Step]_vars

\* a DONE inquiry has been re-quoted, two listeners told, another inquiry stored
C9_Witness ==
    /\ lastOp.name = "SendQuote"
    /\ Len(inquiryListeners) = 2
    /\ Len(CallsOf(trace, "Inquiry")) = 2
    /\ inquiries[lastOp.arg.inquiryId].state = "DONE"
    /\ inquiries[lastOp.arg.inquiryId].price = lastOp.arg.price
    /\ DOMAIN inquiries = InquiryIds

(***************************************************************************)
(* Spec: the program as main() builds it.  The services are linked, then   *)
(* the operations that fan an update out are called.                       *)
(***************************************************************************)
Linked == priceSrvListeners # <<>>

Link ==
    /\ ~Linked /\ opCount = 0
    /\ Apply(Main_Link(World))

OnMessagePrice ==
    /\ Running /\ Linked /\ opCount < MaxOps
    /\ \E data \in PipelinePrices : \E now \in ClockReadings :
          Apply(PricingService_OnMessage(
                    Enter("PricingService::OnMessage", data, [NoEnv EXCEPT !.now = now]),
                    data))

OnMessageOrderBook ==
    /\ Running /\ Linked /\ opCount < MaxOps
    /\ \E data \in PipelineBooks :
          Apply(MarketDataService_OnMessage(
                    Enter("MarketDataService::OnMessage", data, NoEnv), data))

OnMessageTrade ==
    /\ Running /\ Linked /\ opCount < MaxOps
    /\ \E data \in PipelineTrades :
          Apply(TradeBookingService_OnMessage(
                    Enter("TradeBookingService::OnMessage", data, NoEnv), data))

AlgoPublishPrice(prices) ==
    /\ Running /\ opCount < MaxOps
    /\ \E priceObj \in prices :
          Apply(AlgoStreamingService_AlgoPublishPrice(
                    Enter("AlgoPublishPrice", priceObj, NoEnv), priceObj))

PublishPrice ==
    /\ Running /\ Linked /\ opCount < MaxOps
    /\ \E priceStreamObj \in PipelinePriceStreams :
          Apply(StreamingService_PublishPrice(
                    Enter("PublishPrice", priceStreamObj, NoEnv), priceStreamObj))

ExecuteOrder ==
    /\ Running /\ Linked /\ opCount < MaxOps
    /\ \E execOrder \in PipelineOrders :
          Apply(ExecutionService_ExecuteOrder(
                    Enter("ExecuteOrder", execOrder, NoEnv), execOrder))

AddPosition(inputs) ==
    /\ Running /\ opCount < MaxOps
    /\ \E position \in inputs :
          Apply(RiskService_AddPosition(Enter("AddPosition", position, NoEnv), position))

Next ==
    \/ Link
    \/ OnMessagePrice
    \/ OnMessageOrderBook
    \/ OnMessageTrade
    \/ Linked /\ AlgoExecutionTrade(PipelineBooks)
    \/ Linked /\ AlgoPublishPrice(PipelinePrices)
    \/ ExecuteOrder
    \/ PublishPrice
    \/ Linked /\ AddTrade(PipelineTrades)
    \/ Linked /\ AddPosition(PipelinePositions)

Spec == Init /\ [][Next]_vars

\* the listeners registered with each service that fans updates out
ListenersOf(svc) ==
    CASE svc = "Pricing" -> priceSrvListeners
      [] svc = "AlgoStreaming" -> algoStreamingListeners
      [] svc = "Streaming" -> streamingListeners
      [] svc = "MarketData" -> marketDataListeners
      [] svc = "AlgoExecution" -> algoExecutionListeners
      [] svc = "Execution" -> executionListeners
      [] svc = "TradeBooking" -> tradeBookingListeners
      [] svc = "Position" -> positionListeners
      [] svc = "Risk" -> riskListeners

FanOutServices ==
    {"Pricing", "AlgoStreaming", "Streaming", "MarketData", "AlgoExecution",
     "Execution", "TradeBooking", "Position", "Risk"}

\* the number of ProcessAdd calls of service svc that have returned
ReturnsOf(tr, svc) ==
    Cardinality({j \in 1..Len(tr) : tr[j].ev = "ret" /\ tr[j].svc = svc})

\* calls is a sequence of whole rounds over listeners 1..n, each round with one datum
WholeRounds(calls, n) ==
    IF n = 0 THEN calls = <<>>
    ELSE /\ Len(calls) % n = 0
         /\ \A k \in 1..Len(calls) :
               /\ calls[k][1] = ((k - 1) % n) + 1
               /\ calls[k][2] = calls[k - ((k - 1) % n)][2]

(***************************************************************************)
(* C10: whenever a service fans an update out, ProcessAdd is called on     *)
(* every registered listener exactly once, in registration order, and all  *)
(* these calls have completed when the top-level operation is over.        *)
(***************************************************************************)
C10_FanOutReachesEveryListener ==
    \A svc \in FanOutServices :
        /\ WholeRounds(CallsOf(trace, svc), Len(ListenersOf(svc)))
        /\ ReturnsOf(trace, svc) = Len(CallsOf(trace, svc))

(***************************************************************************)
(* SpecHubs: the linked services, OnMessage of each called directly.       *)
(***************************************************************************)
PositionService_OnMessageNotifying(w, data) ==
    PositionService_Notify([w EXCEPT !.positions = Put(@, data.product, data)], 1, data)

PositionService_OnMessage(w, data) ==
    [w EXCEPT !.positions = Put(@, data.product, data)]

RiskService_OnMessage(w, data) == [w EXCEPT !.pv01s = Put(@, data.product, data)]

AlgoExecutionService_OnMessage(w, dataObj) ==
    [w EXCEPT !.algoExecutions = Put(@, dataObj.executionOrder.product, dataObj)]

AlgoStreamingService_OnMessage(w, dataObj) ==
    [w EXCEPT !.algoStreams = Put(@, dataObj.priceStream.product, dataObj)]

PipelinePV01s == [product : PipelineProducts, pv01 : {19}, quantity : {1000000}]

PipelineAlgoExecutions == {[executionOrder |-> o] : o \in PipelineOrders}

PipelineAlgoStreams == {AlgoStreamOf(p, 0) : p \in PipelinePrices}

OnMessagePosition ==
    /\ Running /\ Linked /\ opCount < MaxOps
    /\ \E data \in PipelinePositions :
          Apply(PositionService_OnMessage(
                    Enter("PositionService::OnMessage", data, NoEnv), data))

OnMessagePV01 ==
    /\ Running /\ Linked /\ opCount < MaxOps
    /\ \E data \in PipelinePV01s :
          Apply(RiskService_OnMessage(Enter("RiskService::OnMessage", data, NoEnv), data))

OnMessageExecutionOrder ==
    /\ Running /\ Linked /\ opCount < MaxOps
    /\ \E data \in PipelineOrders :
          Apply(ExecutionService_OnMessage(
                    Enter("ExecutionService::OnMessage", data, NoEnv), data))

OnMessageAlgoExecution ==
    /\ Running /\ Linked /\ opCount < MaxOps
    /\ \E data \in PipelineAlgoExecutions :
          Apply(AlgoExecutionService_OnMessage(
                    Enter("AlgoExecutionService::OnMessage", data, NoEnv), data))

OnMessageAlgoStream ==
    /\ Running /\ Linked /\ opCount < MaxOps
    /\ \E data \in PipelineAlgoStreams :
          Apply(AlgoStreamingService_OnMessage(
                    Enter("AlgoStreamingService::OnMessage", data, NoEnv), data))

OnMessagePriceStream ==
    /\ Running /\ Linked /\ opCount < MaxOps
    /\ \E data \in PipelinePriceStreams :
          Apply(StreamingService_OnMessage(
                    Enter("StreamingService::OnMessage", data, NoEnv), data))

NextHubs ==
    \/ Link
    \/ OnMessagePrice
    \/ OnMessageOrderBook
    \/ OnMessageTrade
    \/ OnMessagePosition
    \/ OnMessagePV01
    \/ OnMessageExecutionOrder
    \/ OnMessageAlgoExecution
    \/ OnMessageAlgoStream
    \/ OnMessagePriceStream

SpecHubs == Init /\ [][NextHubs]_vars

\* the service of a top-level OnMessage call, its store and the key of its argument
HubOf(name) ==
    CASE name = "PricingService::OnMessage" -> "Pricing"
      [] name = "MarketDataService::OnMessage" -> "MarketData"
      [] name = "TradeBookingService::OnMessage" -> "TradeBooking"
      [] name = "PositionService::OnMessage" -> "Position"
      [] name = "RiskService::OnMessage" -> "Risk"
      [] name = "ExecutionService::OnMessage" -> "Execution"
      [] name = "AlgoExecutionService::OnMessage" -> "AlgoExecution"
      [] name = "AlgoStreamingService::OnMessage" -> "AlgoStreaming"
      [] name = "StreamingService::OnMessage" -> "Streaming"

HubOnMessageNames ==
    {"PricingService::OnMessage", "MarketDataService::OnMessage",
     "TradeBookingService::OnMessage", "PositionService::OnMessage",
     "RiskService::OnMessage", "ExecutionService::OnMessage",
     "AlgoExecutionService::OnMessage", "AlgoStreamingService::OnMessage",
     "StreamingService::OnMessage"}

\* what GetData(key of the argument) of the called service returns after the step
StoredAfter(name, arg) ==
    CASE name = "PricingService::OnMessage" -> internalPriceMap'[arg.product]
      [] name = "MarketDataService::OnMessage" -> orderBooks'[arg.product]
      [] name = "TradeBookingService::OnMessage" -> trades'[arg.tradeId]
      [] name = "PositionService::OnMessage" -> positions'[arg.product]
      [] name = "RiskService::OnMessage" -> pv01s'[arg.product]
      [] name = "ExecutionService::OnMessage" -> executionOrders'[arg.product]
      [] name = "AlgoExecutionService::OnMessage" -> algoExecutions'[arg.executionOrder.product]
      [] name = "AlgoStreamingService::OnMessage" -> algoStreams'[arg.priceStream.product]
      [] name = "StreamingService::OnMessage" -> priceStreams'[arg.product]

HubStep == opCount' = opCount + 1 /\ lastOp'.name \in HubOnMessageNames

\* every listener of service svc was handed data once, in registration order
AllNotified(svc, data) ==
    CallsOf(trace', svc) = [i \in 1..Len(ListenersOf(svc)) |-> <<i, data>>]

(***************************************************************************)
(* C11 as claimed: for every service, OnMessage(value) stores the value    *)
(* under its key and invokes ProcessAdd of every registered listener with  *)
(* that value.                                                             *)
(***************************************************************************)
C11_Original_Step ==
    HubStep =>
        /\ StoredAfter(lastOp'.name, lastOp'.arg) = lastOp'.arg
        /\ AllNotified(HubOf(lastOp'.name), lastOp'.arg)

NotifyingHubs == {"Pricing", "MarketData", "TradeBooking"}

C11_Amended_Step ==
    HubStep =>
        /\ StoredAfter(lastOp'.name, lastOp'.arg) = lastOp'.arg
        /\ IF HubOf(lastOp'.name) \in NotifyingHubs
           THEN AllNotified(HubOf(lastOp'.name), lastOp'.arg)
           ELSE trace' = <<>>

ProductOfDatum(d) ==
    IF "product" \in DOMAIN d THEN d.product
    ELSE IF "priceStream" \in DOMAIN d THEN d.priceStream.product
    ELSE d.executionOrder.product

\* the ProcessAdd calls still running after the events of tr, innermost last,
\* starting from the running calls open; <<"unmatched">> if a return does not
\* belong to the innermost running call
RECURSIVE RunningCalls(_, _)
RunningCalls(tr, open) ==
    IF tr = <<>> \/ open = <<"unmatched">> THEN open
    ELSE IF Head(tr).ev = "call"
         THEN RunningCalls(Tail(tr), Append(open, <<Head(tr).svc, Head(tr).idx>>))
    ELSE IF Head(tr).ev = "ret"
         THEN IF open # <<>> /\ open[Len(open)] = <<Head(tr).svc, Head(tr).idx>>
              THEN RunningCalls(Tail(tr), SubSeq(open, 1, Len(open) - 1))
              ELSE <<"unmatched">>
    ELSE RunningCalls(Tail(tr), open)

\* the sinks (historical services) that wrote a record during the last call
SinksWritten == {trace[j].type : j \in {k \in 1..Len(trace) : trace[k].ev = "persist"}}

\* the sinks downstream of a top-level call that lead to an emission
SinksDue ==
    IF lastOp.name = "PricingService::OnMessage" THEN {"Streaming"}
    ELSE IF lastOp.name \in {"MarketDataService::OnMessage", "AlgoExecutionTrade"}
    THEN IF SpreadOf(lastOp.arg) <= SpreadThreshold
         THEN {"Execution", "Position", "Risk"} ELSE {}
    ELSE IF lastOp.name = "TradeBookingService::OnMessage" THEN {"Position", "Risk"}
    ELSE {}

(***************************************************************************)
(* C12: what the downstream listeners process during the ingestion of an   *)
(* input derives from that input (not from an earlier or a later one), the *)
(* listener calls are nested, each stage's fan-out being over before its   *)
(* caller goes on, and when the ingestion call returns every listener call *)
(* has returned and the records derived from the input have reached the    *)
(* historical sinks.                                                       *)
(***************************************************************************)
C12_DownstreamInOrder ==
    opCount > 0 =>
        /\ \A j \in 1..Len(trace) :
              "data" \in DOMAIN trace[j] =>
                  ProductOfDatum(trace[j].data) = ProductOfDatum(lastOp.arg)
        /\ RunningCalls(trace, <<>>) # <<"unmatched">>
        /\ exc = "none" =>
              /\ RunningCalls(trace, <<>>) = <<>>
              /\ SinksDue \subseteq SinksWritten

\* a second order book, of another product than the first, went through the
\* whole chain down to the risk sink
C12_Witness ==
    /\ lastOp.name = "MarketDataService::OnMessage" /\ exc = "none"
    /\ DOMAIN orderBooks = PipelineProducts
    /\ lastOp.arg.product = "912828V23"
    /\ "Risk" \in SinksWritten
    /\ Len(emitted) = 1

(***************************************************************************)
(* SpecBook: the market data service without listeners: order books are    *)
(* stored and queried.                                                     *)
(***************************************************************************)
StoreOrderBook ==
    /\ Running /\ ~Linked /\ opCount < MaxOps
    /\ \E data \in TiedBooks :
          Apply(MarketDataService_OnMessage(
                    Enter("MarketDataService::OnMessage", data, NoEnv), data))

GetBestBidOffer ==
    /\ Running /\ opCount < MaxOps
    /\ \E productId \in QueriedProducts :
          \E e \in BookEnvs(Lookup(orderBooks, productId, DefaultOrderBook)) :
             Apply(MarketDataService_GetBestBidOffer(
                       Enter("GetBestBidOffer", productId, e), productId))

AggregateDepth(products) ==
    /\ Running /\ opCount < MaxOps
    /\ \E productId \in products : \E lo \in LevelOrders :
          Apply(MarketDataService_AggregateDepth(
                    Enter("AggregateDepth", productId, [NoEnv EXCEPT !.levelOrder = lo]),
                    productId))

NextBook ==
    \/ StoreOrderBook
    \/ GetBestBidOffer
    \/ AggregateDepth(QueriedProducts)

SpecBook == Init /\ [][NextBook]_vars

\* the book a query for productId reads
QueriedBook(productId) == Lookup(orderBooks, productId, DefaultOrderBook)

\* order o is the first order of stack at price p
FirstAt(o, stack, p) ==
    \E i \in 1..Len(stack) :
        /\ stack[i] = o /\ o.price = p
        /\ \A j \in 1..(i - 1) : stack[j].price # p

(***************************************************************************)
(* C13: for an order book with a non-empty bid stack and a non-empty offer *)
(* stack, GetBidOffer returns as bid an order of the bid stack at the      *)
(* maximum price and as offer an order of the offer stack at the minimum   *)
(* price, in each case the first order of the stack at that price.         *)
(***************************************************************************)
C13_BestBidOffer ==
    (lastOp.name = "GetBestBidOffer" /\ TwoSided(QueriedBook(lastOp.arg))) =>
        LET book == QueriedBook(lastOp.arg)
        IN  /\ exc = "none" /\ ~lastOp.result.fault
            /\ FirstAt(lastOp.result.bidOrder, book.bidStack,
                       MaxOf(PricesOf(book.bidStack)))
            /\ FirstAt(lastOp.result.offerOrder, book.offerStack,
                       MinOf(PricesOf(book.offerStack)))

\* two bids at the best price, the first of them returned, not the first of the stack
C13_Witness ==
    /\ lastOp.name = "GetBestBidOffer" /\ TwoSided(QueriedBook(lastOp.arg))
    /\ LET book == QueriedBook(lastOp.arg)
       IN  /\ Len(book.bidStack) = 2
           /\ book.bidStack[1].price = book.bidStack[2].price
           /\ book.bidStack[1].quantity # book.bidStack[2].quantity
           /\ lastOp.result.bidOrder = book.bidStack[1]
           /\ lastOp.result.offerOrder = book.offerStack[1]

(***************************************************************************)
(* C14: GetBestBidOffer on a book whose bid stack or offer stack is empty  *)
(* (the book of a product id never ingested included) fails with an error  *)
(* and returns no bid/offer pair.                                          *)
(***************************************************************************)
C14_EmptyBookFails ==
    (lastOp.name = "GetBestBidOffer" /\ ~TwoSided(QueriedBook(lastOp.arg))) =>
        /\ exc # "none"
        /\ lastOp.result.fault

\* the quantities of the orders of stack, by position
QuantitiesOf(stack) == [i \in DOMAIN stack |-> stack[i].quantity]

\* the sum of the quantities of the orders of stack at price p
QuantityAt(stack, p) ==
    SumOver(QuantitiesOf(stack), {i \in DOMAIN stack : stack[i].price = p})

TotalQuantity(stack) == SumOver(QuantitiesOf(stack), DOMAIN stack)

\* levels is stack grouped by price: one level per price, the quantities summed
GroupedByPrice(levels, stack, side) ==
    /\ PricesOf(levels) = PricesOf(stack)
    /\ Len(levels) = Cardinality(PricesOf(stack))
    /\ \A i \in DOMAIN levels :
          /\ levels[i].side = side
          /\ levels[i].quantity = QuantityAt(stack, levels[i].price)
    /\ TotalQuantity(levels) = TotalQuantity(stack)

(***************************************************************************)
(* C15: AggregateDepth(productId) returns a book of the product of the     *)
(* stored book with, on each side, exactly one level per distinct price of *)
(* that side of the stored book, whose quantity is the sum of the          *)
(* quantities of the stored orders at that price and whose side is that of *)
(* its stack; the total quantity per side is preserved.                    *)
(***************************************************************************)
C15_AggregatedLevels ==
    lastOp.name = "AggregateDepth" =>
        LET book == QueriedBook(lastOp.arg)
        IN  /\ lastOp.result.product = book.product
            /\ GroupedByPrice(lastOp.result.bidStack, book.bidStack, "BID")
            /\ GroupedByPrice(lastOp.result.offerStack, book.offerStack, "OFFER")

\* two bids at one price became one level
C15_Witness ==
    /\ lastOp.name = "AggregateDepth"
    /\ Len(QueriedBook(lastOp.arg).bidStack) = 2
    /\ QueriedBook(lastOp.arg) \in RawBooks
    /\ lastOp.result.bidStack
          = <<[price |-> 25601, quantity |-> 5000000, side |-> "BID"]>>
    /\ Len(lastOp.result.offerStack) = 1

\* the levels of a book, level order aside
LevelSet(book) ==
    {book.bidStack[i] : i \in DOMAIN book.bidStack}
        \cup {book.offerStack[i] : i \in DOMAIN book.offerStack}

\* book is what AggregateDepth returns for some book
IsAggregate(book) ==
    \E b \in RawBooks : \E lo \in LevelOrders :
        book = [product |-> b.product,
                bidStack |-> AggregatedStack(b.bidStack, "BID", lo),
                offerStack |-> AggregatedStack(b.offerStack, "OFFER", lo)]

(***************************************************************************)
(* C16: AggregateDepth is idempotent: for a stored book that is itself a   *)
(* result of AggregateDepth, it returns a book with the same set of        *)
(* (side, price, quantity) levels.                                         *)
(***************************************************************************)
C16_Idempotent ==
    (lastOp.name = "AggregateDepth" /\ IsAggregate(QueriedBook(lastOp.arg))) =>
        LevelSet(lastOp.result) = LevelSet(QueriedBook(lastOp.arg))

\* the stored book is an aggregate with a summed bid level, not a book of the
\* feed, and AggregateDepth returns its levels
C16_Witness ==
    /\ lastOp.name = "AggregateDepth"
    /\ IsAggregate(QueriedBook(lastOp.arg))
    /\ QueriedBook(lastOp.arg) \notin RawBooks
    /\ [price |-> 25601, quantity |-> 5000000, side |-> "BID"]
          \in LevelSet(lastOp.result)
    /\ Cardinality(LevelSet(lastOp.result)) = 2
    /\ LevelSet(lastOp.result) = LevelSet(QueriedBook(lastOp.arg))

(***************************************************************************)
(* The depth query in the wired pipeline: the listeners of main are        *)
(* registered, books arrive through OnMessage and are fanned out, and      *)
(* AggregateDepth is called between them.                                  *)
(***************************************************************************)
NextDepth ==
    \/ Link
    \/ OnMessageOrderBook
    \/ Linked /\ AggregateDepth(PipelineProducts)

SpecDepth == Init /\ [][NextDepth]_vars

\* the book AggregateDepth computes from the stored book alone
AggregateOf(book, levelOrder) ==
    [product |-> book.product,
     bidStack |-> AggregatedStack(book.bidStack, "BID", levelOrder),
     offerStack |-> AggregatedStack(book.offerStack, "OFFER", levelOrder)]

\* an AggregateDepth step: the books GetData would return are what they were,
\* no listener is called and no other service's state moves, and the result is
\* computed from the book stored now, whatever was stored or asked before
C17_Step ==
    lastOp'.name = "AggregateDepth" =>
        /\ \A id \in ProductIds :
              Lookup(orderBooks', id, DefaultOrderBook)
                  = Lookup(orderBooks, id, DefaultOrderBook)
        /\ trace' = <<>>
        /\ UNCHANGED <<marketDataListeners, algoExecutions, algoExecutionListeners,
                       executionCount, executionOrders, executionListeners,
                       trades, tradeBookingListeners, bookedCount, positions,
                       pv01s, emitted, applied, exc>>
        /\ lastOp'.result
              = AggregateOf(Lookup(orderBooks, lastOp'.arg, DefaultOrderBook),
                            env'.levelOrder)

InitFeed ==
    /\ ConstructedButDepth
    /\ bookDepth \in 1..MaxDepth

Subscribe ==
    /\ Running /\ feed.pc = "idle"
    /\ Apply(MarketDataConnector_Subscribe(
                 [World EXCEPT !.trace = <<>>, !.lastOp = [name |-> "Subscribe"]]))

SubscribeLine ==
    /\ Running /\ feed.pc = "reading" /\ feedLog.lines < MaxLines
    /\ \E tokens \in FeedLines :
          Apply(MarketDataConnector_ReadLine(
                    [World EXCEPT !.trace = <<>>,
                                  !.lastOp = [name |-> "Subscribe::getline",
                                              arg |-> tokens],
                                  !.feedLog.lines = @ + 1],
                    tokens))

SubscribeEnd ==
    /\ Running /\ feed.pc = "reading"
    /\ Apply(MarketDataConnector_EndOfFile(
                 [World EXCEPT !.trace = <<>>,
                               !.lastOp = [name |-> "Subscribe::eof"]]))

NextFeed ==
    \/ Subscribe
    \/ SubscribeLine
    \/ SubscribeEnd

SpecFeed == InitFeed /\ [][NextFeed]_vars

\* the accepted lines of batch number k
Batch(k) ==
    SubSeq(feedLog.accepted, (k - 1) * (2 * bookDepth) + 1, k * (2 * bookDepth))

\* the orders of the lines of one side, in the order of the lines
RECURSIVE OrdersOn(_, _)
OrdersOn(lines, side) ==
    IF lines = <<>> THEN <<>>
    ELSE IF ParsedSide(Head(lines)[4]) = side
         THEN <<NewOrder(Head(lines))>> \o OrdersOn(Tail(lines), side)
         ELSE OrdersOn(Tail(lines), side)

(***************************************************************************)
(* C18: Subscribe hands over one snapshot each time the number of accepted *)
(* lines reaches a multiple of 2*depth, so that after n accepted lines     *)
(* there are n div (2*depth) snapshots; snapshot k holds exactly the       *)
(* orders of the 2*depth lines accepted since snapshot k-1, bids and       *)
(* offers together; a trailing batch of fewer lines gives no snapshot and  *)
(* no error.                                                               *)
(***************************************************************************)
C18_Batching ==
    feed.pc # "idle" =>
        /\ Len(feedLog.snapshots) = Len(feedLog.accepted) \div (2 * bookDepth)
        /\ \A k \in DOMAIN feedLog.snapshots :
              /\ feedLog.snapshots[k].at = k * (2 * bookDepth)
              /\ feedLog.snapshots[k].book.bidStack = OrdersOn(Batch(k), "BID")
              /\ feedLog.snapshots[k].book.offerStack = OrdersOn(Batch(k), "OFFER")
              /\ Len(feedLog.snapshots[k].book.bidStack)
                     + Len(feedLog.snapshots[k].book.offerStack) = 2 * bookDepth
        /\ exc = "none"

\* the file ended after two snapshots and a trailing partial batch
C18_Witness ==
    /\ feed.pc = "done"
    /\ Len(feedLog.snapshots) = 2
    /\ Len(feedLog.accepted) % (2 * bookDepth) # 0
    /\ exc = "none"

(***************************************************************************)
(* C19: every snapshot handed over by Subscribe holds only orders of lines *)
(* whose product id is the product of the snapshot, whatever the order of  *)
(* the lines.                                                              *)
(***************************************************************************)
C19_OrdersOfOwnProduct ==
    \A k \in DOMAIN feedLog.snapshots :
        \A j \in DOMAIN Batch(k) :
            Batch(k)[j][1] = feedLog.snapshots[k].book.product

(***************************************************************************)
(* The algo streaming service on its own: listeners are registered, then   *)
(* prices are published.                                                   *)
(***************************************************************************)
AlgoStreamingService_AddListener ==
    /\ Running /\ opCount = 0
    /\ Len(algoStreamingListeners) < MaxListeners
    /\ algoStreamingListeners' = Append(algoStreamingListeners, "StreamingServiceListener")
    /\ UNCHANGED <<internalPriceMap, priceSrvListeners, GUIs, timeCount, algoStreams,
                   pricePublishCount, priceStreams, streamingListeners,
                   orderBooks, marketDataListeners, aggregatedBook, bookDepth, feed,
                   feedLog, algoExecutions, algoExecutionListeners,
                   executionCount, executionOrders, executionListeners, trades,
                   tradeBookingListeners, bookedCount, positions, positionListeners,
                   pv01s, riskListeners, inquiries, inquiryListeners, exc, trace,
                   lastOp, opCount, env, emitted, applied>>

NextStream ==
    \/ AlgoStreamingService_AddListener
    \/ AlgoPublishPrice(StreamPrices)

SpecStream == Init /\ [][NextStream]_vars

\* an AlgoPublishPrice step: one more quote is counted, the quote of the price
\* is stored under its product and handed once to each listener, in order
C20_Step ==
    (opCount' = opCount + 1 /\ lastOp'.name = "AlgoPublishPrice") =>
        LET priceObj == lastOp'.arg
            stored == Lookup(algoStreams', priceObj.product, [priceStream |-> "none"])
        IN  /\ priceObj.product \in DOMAIN algoStreams'
            /\ stored.priceStream.product = priceObj.product
            /\ stored.priceStream.bidOrder.side = "BID"
            /\ stored.priceStream.offerOrder.side = "OFFER"
            /\ 2 * stored.priceStream.bidOrder.price
                  = 2 * priceObj.mid - priceObj.bidOfferSpread
            /\ 2 * stored.priceStream.offerOrder.price
                  = 2 * priceObj.mid + priceObj.bidOfferSpread
            /\ pricePublishCount' = pricePublishCount + 1
            /\ \A id \in DOMAIN algoStreams' \ {priceObj.product} :
                  id \in DOMAIN algoStreams /\ algoStreams'[id] = algoStreams[id]
            /\ CallsOf(trace', "AlgoStreaming")
                  = [i \in 1..Len(algoStreamingListeners) |-> <<i, stored>>]
            /\ exc' = "none"

(***************************************************************************)
(* C20: AlgoPublishPrice emits exactly one PriceStream for every input     *)
(* Price, whatever the price, for the same product, with bid price         *)
(* mid - spread/2 on side BID and offer price mid + spread/2 on side       *)
(* OFFER, stores it under the product id and hands it once to each         *)
(* listener.                                                               *)
(***************************************************************************)
C20_OneStreamPerPrice == [][C20_Step]_vars

\* a quote of mid 25601 and spread 4 handed to two listeners, a quote of
\* another product being stored already
C20_Witness ==
    /\ lastOp.name = "AlgoPublishPrice"
    /\ lastOp.arg.mid = 25601 /\ lastOp.arg.bidOfferSpread = 4
    /\ Len(algoStreamingListeners) = 2
    /\ Len(CallsOf(trace, "AlgoStreaming")) = 2
    /\ algoStreams[lastOp.arg.product].priceStream.bidOrder.price = 25599
    /\ algoStreams[lastOp.arg.product].priceStream.offerOrder.price = 25603
    /\ Cardinality(DOMAIN algoStreams) = 2

\* the quote AlgoPublishPrice stored in this step
PublishedQuote == algoStreams'[lastOp'.arg.product].priceStream

\* an AlgoPublishPrice step: opCount quotes were published before it (every
\* top-level call of this specification that is counted publishes one)
C21_Step ==
    (opCount' = opCount + 1 /\ lastOp'.name = "AlgoPublishPrice") =>
        /\ PublishedQuote.bidOrder.visibleQuantity
              = (IF opCount % 2 = 0 THEN 1000000 ELSE 2000000)
        /\ PublishedQuote.offerOrder.visibleQuantity
              = PublishedQuote.bidOrder.visibleQuantity
        /\ PublishedQuote.bidOrder.hiddenQuantity
              = 2 * PublishedQuote.bidOrder.visibleQuantity
        /\ PublishedQuote.offerOrder.hiddenQuantity
              = 2 * PublishedQuote.offerOrder.visibleQuantity
        /\ pricePublishCount = opCount
        /\ pricePublishCount' = pricePublishCount + 1

(***************************************************************************)
(* C21: the k-th quote published by AlgoStreamingService (k = 0, 1, ...    *)
(* over all products together) has visible quantity 1,000,000 for even k   *)
(* and 2,000,000 for odd k, the same on bid and offer, and a hidden        *)
(* quantity of twice the visible one; the publish counter goes up by one   *)
(* per published quote.                                                    *)
(***************************************************************************)
C21_LotSizeAlternates == [][C21_Step]_vars

\* the third quote (k = 2), after quotes of both products: the second quote
\* of a product comes in the small lot again although its first was small too
C21_Witness ==
    /\ lastOp.name = "AlgoPublishPrice"
    /\ pricePublishCount = 3
    /\ Cardinality(DOMAIN algoStreams) = 2
    /\ algoStreams[lastOp.arg.product].priceStream.bidOrder.visibleQuantity = 1000000
    /\ \E id \in DOMAIN algoStreams :
          algoStreams[id].priceStream.offerOrder.visibleQuantity = 2000000

\* the books of product p that a trade was ever applied to
BooksTraded(p) == {k[2] : k \in {x \in DOMAIN applied' : x[1] = p}}

\* an AddTrade step: the stored position of the trade's product holds every
\* book ever traded with its accumulated quantity, and each listener, in
\* order, was handed that position once
C22_Step ==
    (opCount' = opCount + 1 /\ lastOp'.name = "AddTrade") =>
        LET p == lastOp'.arg.product
            merged == Lookup(positions', p, DefaultPosition)
        IN  /\ merged.product = p
            /\ DOMAIN merged.bookPositions = BooksTraded(p)
            /\ \A b \in BooksTraded(p) : merged.bookPositions[b] = applied'[<<p, b>>]
            /\ CallsOf(trace', "Position")
                  = [i \in 1..Len(positionListeners) |-> <<i, merged>>]

(***************************************************************************)
(* C22: each PositionService::AddTrade call notifies every registered      *)
(* listener exactly once with the fully merged position of the trade's     *)
(* product (every book ever traded for the product, with its accumulated   *)
(* quantity), and that merged position is what GetData returns afterwards. *)
(***************************************************************************)
C22_MergedPositionToAll == [][C22_Step]_vars

(***************************************************************************)
(* SpecRisk: the risk service on its own: listeners are registered, then   *)
(* positions are risked and bucketed risk is asked for.                    *)
(***************************************************************************)
RiskService_AddListener ==
    \E lst \in RiskListenerKinds :
        /\ Running /\ opCount = 0
        /\ Len(riskListeners) < MaxListeners
        /\ Apply([World EXCEPT !.riskListeners = Append(@, lst)])

GetBucketedRisk ==
    /\ Running /\ opCount < MaxOps
    /\ \E sector \in Sectors : \E d \in DanglingChoices :
          Apply(RiskService_GetBucketedRisk(
                    Enter("GetBucketedRisk", sector, [NoEnv EXCEPT !.dangling = d]),
                    sector))

NextRisk ==
    \/ RiskService_AddListener
    \/ AddPosition(RiskPositions)
    \/ GetBucketedRisk

SpecRisk == Init /\ [][NextRisk]_vars

\* this step is a top-level AddPosition call
RiskStep == opCount' = opCount + 1 /\ lastOp'.name = "AddPosition"

\* the sum of the quantities of all books of a position
AggregateQuantity(position) ==
    SumOver(position.bookPositions, DOMAIN position.bookPositions)

C23_Step ==
    (RiskStep /\ lastOp'.arg.product \in DOMAIN bondPV01) =>
        LET id == lastOp'.arg.product
            stored == Lookup(pv01s', id, DefaultPV01)
        IN  /\ id \in DOMAIN pv01s'
            /\ stored.product = id
            /\ stored.pv01 = bondPV01[id]
            /\ stored.quantity = AggregateQuantity(lastOp'.arg)
            /\ CallsOf(trace', "Risk")
                  = [i \in 1..Len(riskListeners) |-> <<i, stored>>]
            /\ exc' = "none"

(***************************************************************************)
(* C23: RiskService::AddPosition for a position whose product id is in the *)
(* PV01 table stores under that id a PV01 whose per-unit value is the      *)
(* table entry and whose quantity is the aggregate of the position over    *)
(* all its books, and notifies each registered listener exactly once with  *)
(* it.                                                                     *)
(***************************************************************************)
C23_RiskOfMappedProduct == [][C23_Step]_vars

\* a position of two books, 2,000,000 and -400,000, risked with two listeners
C23_Witness ==
    /\ lastOp.name = "AddPosition"
    /\ lastOp.arg.product = "912828W22"
    /\ Len(riskListeners) = 2
    /\ Len(CallsOf(trace, "Risk")) = 2
    /\ pv01s["912828W22"] = [product |-> "912828W22", pv01 |-> 28, quantity |-> 1600000]

C24_Step ==
    (RiskStep /\ lastOp'.arg.product \notin DOMAIN bondPV01) =>
        /\ exc' # "none"
        /\ pv01s' = pv01s
        /\ CallsOf(trace', "Risk") = <<>>

(***************************************************************************)
(* C24: RiskService::AddPosition for a position whose product id is absent *)
(* from the PV01 table fails with an error, leaves the stored PV01 of      *)
(* every product as it was and notifies no risk listener.                  *)
(***************************************************************************)
C24_UnmappedProductFails == [][C24_Step]_vars

\* a position of a product outside the table, after a product was risked and
\* with a listener registered
C24_Witness ==
    /\ lastOp.name = "AddPosition"
    /\ lastOp.arg.product = "99999ZZ99"
    /\ exc = "std::out_of_range"
    /\ riskListeners # <<>>
    /\ DOMAIN pv01s = {"912828V23"}

\* what GetBucketedRisk has to return for a sector
BucketedRiskOf(sector) ==
    SumOver([i \in DOMAIN sector.products |->
                Lookup(pv01s, sector.products[i], DefaultPV01).pv01
                    * Lookup(pv01s, sector.products[i], DefaultPV01).quantity],
            DOMAIN sector.products)

(***************************************************************************)
(* C26: GetBucketedRisk(sector) returns a PV01 whose value is the sum,     *)
(* over the products of the sector, of the last stored per-unit PV01 times *)
(* the last stored aggregate quantity, a product never risked counting 0,  *)
(* and whose quantity is 1.                                                *)
(***************************************************************************)
C26_BucketedRisk ==
    lastOp.name = "GetBucketedRisk" =>
        /\ ~lastOp.result.fault
        /\ lastOp.result.pv01 = BucketedRiskOf(lastOp.arg)
        /\ lastOp.result.quantity = 1

\* in the last top-level call the risk listener of the position service was
\* handed a position of a product that is not in the PV01 table
RiskedUnmapped ==
    \E i \in DOMAIN trace :
        /\ trace[i].ev = "call" /\ trace[i].svc = "Position"
        /\ trace[i].lst = "RiskServiceListener"
        /\ trace[i].data.product \notin DOMAIN bondPV01

(***************************************************************************)
(* C25: a failed risk update of a product outside the PV01 table aborts    *)
(* only that risk update: the listeners registered on the position service *)
(* after the risk listener are still handed the position, and the run goes *)
(* on, so that the remaining trades are booked, positioned and risked.     *)
(***************************************************************************)
C25_RiskFailureContained ==
    RiskedUnmapped =>
        /\ Len(CallsOf(trace, "Position")) = Len(positionListeners)
        /\ exc = "none"

(***************************************************************************)
(* SpecLookup: keyed lookups.  Inquiries arrive, are quoted and rejected   *)
(* by id, and GetData is asked of every service, for keys that are stored  *)
(* and for keys that are not.                                              *)
(***************************************************************************)
GetData ==
    /\ Running /\ opCount < MaxOps
    /\ \E svc \in KeyedServices : \E key \in LookupKeys :
          Apply(Service_GetData(Enter("GetData", [svc |-> svc, key |-> key], NoEnv),
                                svc, key))

NextLookup ==
    \/ OnMessageInquiry
    \/ SendQuote
    \/ RejectInquiry
    \/ GetData

SpecLookup == Init /\ [][NextLookup]_vars

\* the keyed store of a service after the step
StoreAfter(svc) ==
    CASE svc = "Pricing" -> internalPriceMap'
      [] svc = "GUI" -> GUIs'
      [] svc = "AlgoStreaming" -> algoStreams'
      [] svc = "Streaming" -> priceStreams'
      [] svc = "MarketData" -> orderBooks'
      [] svc = "AlgoExecution" -> algoExecutions'
      [] svc = "Execution" -> executionOrders'
      [] svc = "TradeBooking" -> trades'
      [] svc = "Position" -> positions'
      [] svc = "Risk" -> pv01s'
      [] svc = "Inquiry" -> inquiries'

\* a lookup of a key that is absent from the store succeeds, and the key is in
\* the store afterwards, with a default value (for SendQuote and
\* RejectInquiry: a default inquiry with the price or state just set)
C27_Step ==
    /\ (StepOf("GetData")
            /\ lastOp'.arg.key \notin DOMAIN StoreOf(World, lastOp'.arg.svc)) =>
          /\ exc' = "none"
          /\ lastOp'.result = DefaultValueOf(lastOp'.arg.svc)
          /\ DOMAIN StoreAfter(lastOp'.arg.svc)
                = DOMAIN StoreOf(World, lastOp'.arg.svc) \cup {lastOp'.arg.key}
          /\ StoreAfter(lastOp'.arg.svc)[lastOp'.arg.key]
                = DefaultValueOf(lastOp'.arg.svc)
          /\ \A k \in DOMAIN StoreOf(World, lastOp'.arg.svc) :
                StoreAfter(lastOp'.arg.svc)[k] = StoreOf(World, lastOp'.arg.svc)[k]
    /\ (StepOf("SendQuote") /\ lastOp'.arg.inquiryId \notin DOMAIN inquiries) =>
          /\ exc' = "none"
          /\ DOMAIN inquiries' = DOMAIN inquiries \cup {lastOp'.arg.inquiryId}
          /\ inquiries'[lastOp'.arg.inquiryId]
                = [DefaultInquiry EXCEPT !.price = lastOp'.arg.price]
    /\ (StepOf("RejectInquiry") /\ lastOp'.arg.inquiryId \notin DOMAIN inquiries) =>
          /\ exc' = "none"
          /\ DOMAIN inquiries' = DOMAIN inquiries \cup {lastOp'.arg.inquiryId}
          /\ inquiries'[lastOp'.arg.inquiryId]
                = [DefaultInquiry EXCEPT !.state = "REJECTED"]

(***************************************************************************)
(* C27: every keyed lookup of an absent key - GetData of any service, and  *)
(* SendQuote or RejectInquiry for an inquiry id never ingested - succeeds  *)
(* instead of reporting NotFound and inserts a default-valued entry under  *)
(* the key, so that the key is in the store afterwards.                    *)
(***************************************************************************)
C27_LookupInserts == [][C27_Step]_vars

\* GetData of the position service for a key it does not hold, after SendQuote
\* for an inquiry id never ingested: both keys are stored now
C27_Witness ==
    /\ lastOp.name = "GetData" /\ lastOp.arg.svc = "Position"
    /\ positions = [k \in {lastOp.arg.key} |-> DefaultPosition]
    /\ lastOp.result = DefaultPosition
    /\ exc = "none"
    /\ DOMAIN inquiries = {"INQ2"}
    /\ inquiries["INQ2"].inquiryId = "" /\ inquiries["INQ2"].price # 0

\* o is the order GetBidOffer returns for a side: the first order of the stack
\* at the best price p or, for an empty stack, whatever the read past its end
\* yielded
BestOn(o, stack, p, stray) ==
    IF stack = <<>> THEN ~stray.fault /\ o = stray.order
    ELSE FirstAt(o, stack, p)

C28_Step ==
    (AlgoStep /\ Len(emitted') = Len(emitted) + 1) =>
        LET book == lastOp'.arg
            order == emitted'[Len(emitted')].order
        IN  /\ order.product = book.product
            /\ order.orderType = "MARKET"
            /\ order.hiddenQuantity = 0
            /\ order.parentOrderId = "PARENT_ORDER_ID"
            /\ order.isChildOrder = FALSE
            /\ order.side \in {"BID", "OFFER"}
            /\ \E o \in [price : {order.price}, quantity : {order.visibleQuantity},
                         side : {"BID", "OFFER"}] :
                  IF order.side = "BID"
                  THEN BestOn(o, book.bidStack, MaxOf(PricesOf(book.bidStack)),
                              env'.strayBid)
                  ELSE BestOn(o, book.offerStack, MinOf(PricesOf(book.offerStack)),
                              env'.strayOffer)

(***************************************************************************)
(* C28: every ExecutionOrder synthesized by AlgoExecutionTrade has the     *)
(* product of the snapshot, order type MARKET, hidden quantity 0, parent   *)
(* order id "PARENT_ORDER_ID", isChildOrder false, and the price and       *)
(* visible quantity of the single best order, as GetBidOffer returns it,   *)
(* of the chosen side.                                                     *)
(***************************************************************************)
C28_SynthesizedOrder == [][C28_Step]_vars

\* an order on the offer side of a book with two offers, the best of them not
\* the first of the stack
C28_Witness ==
    /\ lastOp.name = "AlgoExecutionTrade"
    /\ emitted # <<>> /\ emitted[Len(emitted)].at = opCount
    /\ emitted[Len(emitted)].order.side = "OFFER"
    /\ Len(lastOp.arg.offerStack) = 2
    /\ lastOp.arg.offerStack[1].price > lastOp.arg.offerStack[2].price
    /\ emitted[Len(emitted)].order.price = lastOp.arg.offerStack[2].price
    /\ emitted[Len(emitted)].order.visibleQuantity = lastOp.arg.offerStack[2].quantity

(***************************************************************************)
(* The price conversions on their own: string2price, price2string and the  *)
(* two in a row, on well-formed and malformed texts.                       *)
(***************************************************************************)
Bases == {<<"0">>, <<"9", "9">>, <<"1", "0", "0">>}

XYs == {<<"0", "0">>, <<"0", "9">>, <<"3", "1">>}

ZChars == {"0", "1", "2", "3", "4", "5", "6", "7", "+"}

WellFormedTexts ==
    {b \o <<"-">> \o xy \o <<z>> : b \in Bases, xy \in XYs, z \in ZChars}

MalformedTexts ==
    {<<>>,
     <<"1", "0", "0", "0", "0", "0">>,
     <<"-", "0", "0", "0">>,
     <<"a", "-", "0", "0", "0">>,
     <<"1", "0", "0", "-">>,
     <<"1", "0", "0", "-", "0">>,
     <<"1", "0", "0", "-", "0", "0">>,
     <<"1", "0", "0", "-", "a", "0", "0">>,
     <<"1", "0", "0", "-", "0", "a", "0">>,
     <<"1", "0", "0", "-", "3", "2", "0">>,
     <<"1", "0", "0", "-", "9", "9", "0">>,
     <<"1", "0", "0", "-", "-", "1", "0">>,
     <<"1", "0", "0", "-", "0", "0", "8">>,
     <<"1", "0", "0", "-", "0", "0", "9">>,
     <<"1", "0", "0", "-", "0", "0", "a">>,
     <<"1", "0", "0", "-", "0", "0", "-">>,
     <<"1", "0", "0", "-", "0", "0", "0", "0">>,
     <<"1", "0", "0", "-", "0", "0", "+", "a">>,
     <<"1", "0", "a", "-", "0", "0", "0">>,
     <<"+", "1", "0", "0", "-", "0", "0", "0">>}

PriceTexts == WellFormedTexts \cup MalformedTexts

GridPrices == {256 * b + f : b \in {0, 99, 100}, f \in {0, 4, 7, 8, 76, 80, 252, 255}}

StrayChars == StrayChoices({"0"})

\* string2price followed by price2string of what it returned
RoundTripOf(fractional, stray) ==
    IF string2price(fractional, stray).thrown \/ string2price(fractional, stray).fault
    THEN string2price(fractional, stray)
    ELSE price2string(string2price(fractional, stray).price)

String2Price ==
    /\ Running /\ opCount < MaxOps
    /\ \E fractional \in PriceTexts : \E stray \in StrayChars :
          Apply(WithResult(Enter("string2price", fractional,
                                 [NoEnv EXCEPT !.strayChar = stray]),
                           string2price(fractional, stray)))

Price2String ==
    /\ Running /\ opCount < MaxOps
    /\ \E decimal \in GridPrices :
          Apply(WithResult(Enter("price2string", decimal, NoEnv), price2string(decimal)))

RoundTrip ==
    /\ Running /\ opCount < MaxOps
    /\ \E fractional \in PriceTexts : \E stray \in StrayChars :
          Apply(WithResult(Enter("RoundTrip", fractional,
                                 [NoEnv EXCEPT !.strayChar = stray]),
                           RoundTripOf(fractional, stray)))

NextPrice ==
    \/ String2Price
    \/ Price2String
    \/ RoundTrip

SpecPrice == Init /\ [][NextPrice]_vars

\* a text is all digits
AllDigits(text) == \A i \in 1 .. Len(text) : text[i] \in DigitChars

\* B-XYz: B a non-negative integer without leading zeros, XY two digits
\* from 00 to 31, z one of '0'..'7' and '+'
WellFormed(text) ==
    /\ FindDash(text, 1) > 1
    /\ Len(text) = FindDash(text, 1) + 3
    /\ AllDigits(SubSeq(text, 1, FindDash(text, 1) - 1))
    /\ (FindDash(text, 1) > 2 => text[1] # "0")
    /\ AllDigits(SubSeq(text, FindDash(text, 1) + 1, FindDash(text, 1) + 2))
    /\ DigitsFrom(SubSeq(text, FindDash(text, 1) + 1, FindDash(text, 1) + 2), 1, 0) <= 31
    /\ text[Len(text)] \in ZChars

\* the text with '+' in place of a final '4'
Canonical(text) ==
    IF text[Len(text)] = "4" THEN [text EXCEPT ![Len(text)] = "+"] ELSE text

\* C29 as stated: for every well-formed price text s, z being one of '0'..'7'
\* and '+', price2string(string2price(s)) is s itself.
C29_RoundTripExact ==
    (lastOp.name = "RoundTrip" /\ WellFormed(lastOp.arg)) => lastOp.result = lastOp.arg

\* C29 amended: for every well-formed price text s, price2string(string2price(s))
\* is s with a final '4' written as '+'; it is s itself unless z is '4'.
C29_RoundTripCanonical ==
    (lastOp.name = "RoundTrip" /\ WellFormed(lastOp.arg)) =>
        /\ lastOp.result = Canonical(lastOp.arg)
        /\ (lastOp.arg[Len(lastOp.arg)] # "4" => lastOp.result = lastOp.arg)
        /\ (lastOp.arg[Len(lastOp.arg)] = "4" => lastOp.result # lastOp.arg)

C29_Witness ==
    /\ lastOp.name = "RoundTrip"
    /\ lastOp.arg = <<"9", "9", "-", "0", "9", "+">>
    /\ lastOp.result = lastOp.arg

\* C30: string2price of a text that is not a well-formed price text raises a
\* parse error and never returns a price.
C30_MalformedRaises ==
    (lastOp.name = "string2price" /\ ~WellFormed(lastOp.arg)) =>
        (lastOp.result.thrown /\ lastOp.result.what = "std::invalid_argument")

\* the quantity of book b in the stored position of product p
BookQuantity(store, p, b) ==
    Lookup(Lookup(store, p, DefaultPosition).bookPositions, b, 0)

\* the trade that entered the booking service in the top-level call just made:
\* the trade ingested, or the trade derived from the execution order
TradeEntered ==
    IF lastOp'.name = "ExecuteOrder" THEN trades'[lastOp'.arg.orderId] ELSE lastOp'.arg

\* a completed call that brings one trade into the booking service: each
\* listener of the booking service was handed the trade once, and the position
\* of its product and book moved by its signed quantity
C31_Step ==
    (/\ opCount' = opCount + 1 /\ exc' = "none"
     /\ lastOp'.name \in {"TradeBookingService::OnMessage", "ExecuteOrder"}) =>
        /\ CallsOf(trace', "TradeBooking")
              = [i \in 1..Len(tradeBookingListeners) |-> <<i, TradeEntered>>]
        /\ BookQuantity(positions', TradeEntered.product, TradeEntered.book)
              = BookQuantity(positions, TradeEntered.product, TradeEntered.book)
                  + SignedQuantity(TradeEntered)

(***************************************************************************)
(* C31: every trade that enters TradeBookingService, ingested or derived   *)
(* from an ExecutionOrder, is delivered to each listener of the booking     *)
(* service exactly once, so that the position of its product and book      *)
(* changes by exactly the trade's signed quantity.                          *)
(***************************************************************************)
C31_TradeDeliveredOnce == [][C31_Step]_vars

\* the inquiry object of the caller of the last OnMessage, as the call left
\* it: what was written through the reference, or the object as passed
CallerInquiry(op) == IF "result" \in DOMAIN op THEN op.result ELSE op.arg

\* the states of the inquiries that the listeners of the inquiry service were
\* handed in the trace tr
NotifiedStates(tr) ==
    {CallsOf(tr, "Inquiry")[j][2].state : j \in 1..Len(CallsOf(tr, "Inquiry"))}

C32_Step ==
    /\ \A id \in DOMAIN inquiries' : inquiries'[id].state # "QUOTED"
    /\ StepOf("InquiryService::OnMessage") =>
          /\ NotifiedStates(trace') \subseteq {"DONE"}
          /\ lastOp'.arg.state = "RECEIVED" =>
                /\ inquiries'[lastOp'.arg.inquiryId].state = "DONE"
                /\ CallerInquiry(lastOp') = [lastOp'.arg EXCEPT !.state = "DONE"]

(***************************************************************************)
(* C32: one external OnMessage call with a RECEIVED inquiry makes both     *)
(* transitions before it returns: on return the stored inquiry and the     *)
(* caller's inquiry object are DONE; after no top-level operation does the *)
(* store hold a QUOTED inquiry, and OnMessage hands its listeners DONE     *)
(* inquiries only.                                                         *)
(***************************************************************************)
C32_ReceivedCompletes == [][C32_Step]_vars

\* a RECEIVED inquiry went in with two listeners registered and came back DONE
C32_Witness ==
    /\ lastOp.name = "InquiryService::OnMessage" /\ lastOp.arg.state = "RECEIVED"
    /\ CallerInquiry(lastOp).state = "DONE"
    /\ inquiries[lastOp.arg.inquiryId].state = "DONE"
    /\ NotifiedStates(trace) = {"DONE"}
    /\ Len(inquiryListeners) = 2

(***************************************************************************)
(* SpecIngest: the services linked as in main, fed by their connectors     *)
(* only: trades of the trade file and order books of the market data file. *)
(***************************************************************************)
IngestTrades ==
    [product : BookProducts, tradeId : {<<"T", 1>>}, price : {25600},
     book : {"TRSY1", "TRSY2"}, quantity : {400000, 1000000}, side : {"BUY", "SELL"}]

IngestTrade ==
    /\ Running /\ Linked /\ opCount < MaxOps
    /\ \E data \in IngestTrades :
          Apply(TradeBookingService_OnMessage(
                    Enter("TradeBookingService::OnMessage", data, NoEnv), data))

NextIngest ==
    \/ Link
    \/ IngestTrade
    \/ OnMessageOrderBook

SpecIngest == Init /\ [][NextIngest]_vars

(***************************************************************************)
(* C33: with the wiring of main, after every completed top-level ingestion *)
(* and for every product a trade was applied to, the quantity of the PV01  *)
(* stored in RiskService for the product is the aggregate position stored  *)
(* in PositionService for it.                                              *)
(***************************************************************************)
C33_RiskFollowsPosition ==
    (Linked /\ exc = "none") =>
        \A p \in DOMAIN positions :
            /\ p \in DOMAIN pv01s
            /\ pv01s[p].quantity = Position_GetAggregatePosition(positions[p])

\* both products are positioned, one over two books, after a trade of the
\* file and a trade derived from an order book
C33_Witness ==
    /\ Linked /\ exc = "none"
    /\ DOMAIN positions = BookProducts
    /\ \E p \in DOMAIN positions : Cardinality(DOMAIN positions[p].bookPositions) = 2
    /\ emitted # <<>>
    /\ \A p \in DOMAIN positions :
          pv01s[p].quantity = Position_GetAggregatePosition(positions[p])

\* the positions in the trace of the records persisted by the sink of a type
PersistsOf(tr, type) ==
    {j \in 1..Len(tr) : tr[j].ev = "persist" /\ tr[j].type = type}

\* the positions in the trace of the listener calls of a service
CallsAt(tr, svc) == {j \in 1..Len(tr) : tr[j].ev = "call" /\ tr[j].svc = svc}

\* the execution order handed to the listeners of the execution service at
\* position j was persisted first: no trade listener and no position listener
\* runs between the hand-over to the first listener and the persisted record
ExecutionPersistedFirst(tr, j) ==
    \E i \in PersistsOf(tr, "Execution") :
        /\ i > j /\ tr[i].data = tr[j].data
        /\ \A k \in j..i : ~(tr[k].ev = "call" /\ tr[k].svc \in {"TradeBooking", "Position"})

\* the position persisted at position j was risked first: the call of the
\* risk listener with that position, the record of the risk sink and the
\* return of the risk listener all come before it, after any earlier
\* persisted position
RiskedBeforePersisted(tr, j) ==
    \E a \in CallsAt(tr, "Position") :
        /\ a < j /\ tr[a].lst = "RiskServiceListener" /\ tr[a].data = tr[j].data
        /\ \A k \in a..(j - 1) : ~(tr[k].ev = "persist" /\ tr[k].type = "Position")
        /\ \E b \in PersistsOf(tr, "Risk") :
              /\ a < b /\ b < j
              /\ tr[b].data.product = tr[j].data.product
              /\ tr[b].data.quantity = Position_GetAggregatePosition(tr[j].data)
              /\ \E c \in (b + 1)..(j - 1) :
                    tr[c] = [ev |-> "ret", svc |-> "Position", idx |-> tr[a].idx]

(***************************************************************************)
(* C34: with the wiring of main, processing is depth-first in registration *)
(* order: the historical execution listener persists every ExecutionOrder  *)
(* before the derived trade is booked and before any position changes, and *)
(* for every position update the risk update and its persistence are over  *)
(* before the historical position listener persists the position.          *)
(***************************************************************************)
C34_DepthFirstInRegistrationOrder ==
    Linked =>
        /\ \A j \in CallsAt(trace, "Execution") :
              trace[j].idx = 1 => ExecutionPersistedFirst(trace, j)
        /\ \A j \in CallsAt(trace, "TradeBooking") \cup CallsAt(trace, "Position") :
              CallsAt(trace, "Execution") # {} =>
                  \E i \in PersistsOf(trace, "Execution") : i < j
        /\ \A j \in PersistsOf(trace, "Position") : RiskedBeforePersisted(trace, j)

\* an order book went down the whole chain: the order, the risk and the
\* position were persisted, in that order
C34_Witness ==
    /\ Linked /\ exc = "none" /\ lastOp.name = "MarketDataService::OnMessage"
    /\ \E i \in PersistsOf(trace, "Execution") : \E b \in PersistsOf(trace, "Risk") :
          \E j \in PersistsOf(trace, "Position") : i < b /\ b < j

(***************************************************************************)
(* C35: every order book that MarketDataConnector::Subscribe hands to the  *)
(* market data service has a bid stack and an offer stack that are not     *)
(* empty, whatever the accepted lines, so that the best bid and offer can  *)
(* be asked of it.                                                         *)
(***************************************************************************)
C35_SnapshotsTwoSided ==
    \A k \in DOMAIN feedLog.snapshots :
        /\ feedLog.snapshots[k].book.bidStack # <<>>
        /\ feedLog.snapshots[k].book.offerStack # <<>>

C36_Step ==
    /\ \A id \in DOMAIN inquiries' : inquiries'[id].state # "CUSTOMER_REJECTED"
    /\ (StepOf("InquiryService::OnMessage") /\ lastOp'.arg.state \in TerminalStates) =>
          /\ inquiries' = inquiries
          /\ CallerInquiry(lastOp') = lastOp'.arg
          /\ trace' = <<>>

(***************************************************************************)
(* C36: OnMessage with an inquiry in state DONE, REJECTED or               *)
(* CUSTOMER_REJECTED does nothing: the store is as it was (the inquiry is  *)
(* not stored), the inquiry passed is as it was and no listener is         *)
(* notified; so no operation of the inquiry service ever leaves an inquiry *)
(* in state CUSTOMER_REJECTED in the store.                                *)
(***************************************************************************)
C36_TerminalIsNoOp == [][C36_Step]_vars

\* a CUSTOMER_REJECTED inquiry of an id that is not stored came in, with two
\* listeners registered and another inquiry stored
C36_Witness ==
    /\ lastOp.name = "InquiryService::OnMessage"
    /\ lastOp.arg.state = "CUSTOMER_REJECTED"
    /\ lastOp.arg.inquiryId \notin DOMAIN inquiries
    /\ DOMAIN inquiries # {}
    /\ Len(inquiryListeners) = 2 /\ trace = <<>>

\* AggregateDepth returns a reference to its static aggregatedBook: the book
\* that the caller of an earlier call holds is that object, read when used
BookHeldByEarlierCaller(static) == static

\* an AggregateDepth step made after an earlier AggregateDepth call: the book
\* the earlier caller was handed reads as it did before the step
C37_Step ==
    (StepOf("AggregateDepth") /\ "product" \in DOMAIN aggregatedBook) =>
        BookHeldByEarlierCaller(aggregatedBook') = BookHeldByEarlierCaller(aggregatedBook)

(***************************************************************************)
(* C37: the book returned by AggregateDepth for a product stays the        *)
(* aggregation of that product's snapshot after any later AggregateDepth   *)
(* call, for another product or for a newer snapshot: a result handed to a *)
(* caller is not changed by later calls.                                   *)
(***************************************************************************)
C37_ResultKept == [][C37_Step]_vars

(***************************************************************************)
(* SpecBooking: the trade booking service and its listener on their own:   *)
(* listeners are registered on the booking service, then execution orders  *)
(* are handed to TradeBookingServiceListener::ProcessAdd.                   *)
(***************************************************************************)
BookedOrders ==
    [product : {"912828V23"}, side : {"BID", "OFFER"},
     orderId : {<<"AlgoExec", 1>>, <<"AlgoExec", 2>>},
     orderType : {"MARKET"}, price : {25600}, visibleQuantity : {1000000},
     hiddenQuantity : {0, 2000000}, parentOrderId : {"PARENT_ORDER_ID"},
     isChildOrder : {FALSE}]

TradeBookingService_AddListener ==
    /\ Running /\ opCount = 0
    /\ Len(tradeBookingListeners) < MaxListeners
    /\ Apply([World EXCEPT !.tradeBookingListeners = Append(@, "PositionServiceListener")])

ProcessAddExecutionOrder ==
    /\ Running /\ opCount < MaxOps
    /\ \E execOrder \in BookedOrders :
          Apply(TradeBookingServiceListener_ProcessAdd(
                    Enter("TradeBookingServiceListener::ProcessAdd", execOrder, NoEnv),
                    execOrder))

NextBooking ==
    \/ TradeBookingService_AddListener
    \/ ProcessAddExecutionOrder

SpecBooking == Init /\ [][NextBooking]_vars

\* the book of the k-th order: TRSY2, TRSY3, TRSY1, TRSY2, ...
BookOfOrder(k) ==
    IF k % 3 = 1 THEN "TRSY2" ELSE IF k % 3 = 2 THEN "TRSY3" ELSE "TRSY1"

\* the trade the claim has the k-th order turned into
TradeOfOrder(execOrder, k) ==
    [product |-> execOrder.product, tradeId |-> execOrder.orderId,
     price |-> execOrder.price, book |-> BookOfOrder(k),
     quantity |-> execOrder.visibleQuantity + execOrder.hiddenQuantity,
     side |-> IF execOrder.side = "BID" THEN "SELL" ELSE "BUY"]

\* the k-th call of ProcessAdd: the trade stored under the order id, and handed
\* to the listeners of the booking service, is the trade of the k-th order
C38_Step ==
    StepOf("TradeBookingServiceListener::ProcessAdd") =>
        /\ bookedCount' = opCount'
        /\ trades'[lastOp'.arg.orderId] = TradeOfOrder(lastOp'.arg, opCount')
        /\ \A j \in 1..Len(CallsOf(trace', "TradeBooking")) :
              CallsOf(trace', "TradeBooking")[j][2] = TradeOfOrder(lastOp'.arg, opCount')

(***************************************************************************)
(* C38: TradeBookingServiceListener::ProcessAdd turns the k-th execution   *)
(* order it receives into a trade with the order's product, the order id   *)
(* as trade id, the order's price, the visible plus the hidden quantity,    *)
(* side SELL for a BID order and BUY for an OFFER order, and the book       *)
(* marketBooks[k mod 3]: TRSY2, TRSY3, TRSY1, TRSY2, ... in order.          *)
(***************************************************************************)
C38_DerivedTrade == [][C38_Step]_vars

\* the third order, an OFFER order with a hidden quantity, became a BUY of
\* 3000000 in TRSY1, handed to a registered listener
C38_Witness ==
    /\ lastOp.name = "TradeBookingServiceListener::ProcessAdd"
    /\ bookedCount = 3 /\ lastOp.arg.side = "OFFER"
    /\ tradeBookingListeners # <<>>
    /\ trades[lastOp.arg.orderId].book = "TRSY1"
    /\ trades[lastOp.arg.orderId].side = "BUY"
    /\ trades[lastOp.arg.orderId].quantity = 3000000
    /\ Len(CallsOf(trace, "TradeBooking")) > 0

\* the books of the stored position of product p
BooksOf(store, p) == DOMAIN Lookup(store, p, DefaultPosition).bookPositions

C39_Step ==
    /\ \A p \in DOMAIN positions :
          p \in DOMAIN positions' /\ BooksOf(positions, p) \subseteq BooksOf(positions', p)
    /\ StepOf("AddTrade") =>
          /\ DOMAIN positions' = DOMAIN positions \cup {lastOp'.arg.product}
          /\ \A p \in DOMAIN positions :
                p # lastOp'.arg.product => positions'[p] = positions[p]
          /\ BooksOf(positions', lastOp'.arg.product)
                = BooksOf(positions, lastOp'.arg.product) \cup {lastOp'.arg.book}
          /\ \A b \in BooksOf(positions, lastOp'.arg.product) :
                b # lastOp'.arg.book =>
                    BookQuantity(positions', lastOp'.arg.product, b)
                        = BookQuantity(positions, lastOp'.arg.product, b)

(***************************************************************************)
(* C39: AddTrade for a trade of product P in book B changes only the       *)
(* quantity of book B in the stored position of P: the quantities of the   *)
(* other books of P and the stored positions of the other products are as  *)
(* they were, and no book entry is ever removed.                           *)
(***************************************************************************)
C39_OnlyTheTradedBook == [][C39_Step]_vars

\* a trade in a second book of a product, another product being positioned
C39_Witness ==
    /\ lastOp.name = "AddTrade"
    /\ Cardinality(DOMAIN positions) = 2
    /\ Cardinality(BooksOf(positions, lastOp.arg.product)) = 2
    /\ \E b \in BooksOf(positions, lastOp.arg.product) :
          b # lastOp.arg.book /\ BookQuantity(positions, lastOp.arg.product, b) # 0

\* where the trace has events of a kind
EventsAt(tr, ev) == {j \in 1..Len(tr) : tr[j].ev = ev}

\* an OnMessage step: the call returned; it re-submitted the inquiry at most
\* once (once for a RECEIVED inquiry, never otherwise), so that at most two
\* activations of OnMessage were nested; and once the inner activation had
\* returned nothing more was stored, written to the inquiry or notified
C40_Step ==
    StepOf("InquiryService::OnMessage") =>
        /\ exc' = "none"
        /\ Cardinality(EventsAt(trace', "resubmit"))
              = IF lastOp'.arg.state = "RECEIVED" THEN 1 ELSE 0
        /\ Cardinality(EventsAt(trace', "resumed"))
              = Cardinality(EventsAt(trace', "resubmit"))
        /\ \A j \in EventsAt(trace', "resumed") :
              /\ j = Len(trace')
              /\ trace'[j].inquiries = inquiries'
              /\ trace'[j].inquiry = CallerInquiry(lastOp')

(***************************************************************************)
(* C40: every InquiryService::OnMessage call terminates, whatever the      *)
(* state of the inquiry: the cycle OnMessage -> Publish -> Subscribe ->    *)
(* OnMessage nests at most two OnMessage activations, and the outer one    *)
(* makes no further transition or notification after the inner one has     *)
(* returned.                                                               *)
(***************************************************************************)
C40_ResubmissionBounded == [][C40_Step]_vars

\* a RECEIVED inquiry was re-submitted once; two listeners were told by the
\* inner activation, and the outer one resumed last
C40_Witness ==
    /\ lastOp.name = "InquiryService::OnMessage" /\ lastOp.arg.state = "RECEIVED"
    /\ Len(inquiryListeners) = 2
    /\ trace # <<>> /\ trace[1].ev = "resubmit"
    /\ trace[Len(trace)].ev = "resumed"
    /\ Len(CallsOf(trace, "Inquiry")) = 2
    /\ Cardinality(DOMAIN inquiries) = 2

====
